---------------------------- MODULE Spec2Model ----------------------------
(***************************************************************************)
(* PI_CAR: the command arbiter (src/core/fsm.py), the serial pump and the  *)
(* supervisor's shutdown (src/main.py), the detector's event slot          *)
(* (src/services/dector.py), the patrol navigator (src/core/patrol_logic.py)*)
(* and the shared context (src/global_ctx.py).                             *)
(*                                                                         *)
(* Time is the wall clock time.time() in units of half a second, so the    *)
(* default thresholds 0.5 s, 1.0 s, 2.0 s and 6.0 s are 1, 2, 4 and 12.    *)
(* Commands are sequences of characters, so that prefix tests and strip()  *)
(* are computed as the code computes them.                                 *)
(***************************************************************************)
EXTENDS Integers, Sequences, FiniteSets, TLC

VARIABLES
    now,                 \* time.time()
    ctxAttrs,            \* the attribute names of the module src.global_ctx
    system_stop_event,   \* ctx.system_stop_event
    dector_queue,        \* ctx.dector_queue, maxsize 1
    uart_queue,          \* ctx.uart_queue, maxsize 1
    patrol_cmd_queue,    \* ctx.patrol_cmd_queue
    pack_event,          \* ctx.pack_event
    pack_in_progress,    \* ctx.pack_in_progress
    pack_jobs,           \* number of _job threads alive
    dector_mock,         \* DECTOR_ser.mode
    fsm_pc,              \* position of FSMService.run
    last_violation_ts,   \* FSMService._last_violation_ts
    last_sent_cmd,       \* FSMService._last_sent_cmd
    last_sent_ts,        \* FSMService._last_sent_ts
    patrol_cached_cmd,   \* FSMService._patrol_cached_cmd
    patrol_cached_ts,    \* FSMService._patrol_cached_ts
    pump_pc,             \* position of uart_pump
    pump_item,           \* uart_pump's local cmd, as taken from the queue
    pump_last_cmd,       \* uart_pump's local last_cmd
    pump_last_ts,        \* uart_pump's local last_ts
    main_pc,             \* position of main
    join_ts,             \* when main began uart_thread.join(timeout=1.0)
    ser_open,            \* uart.ser.is_open
    fsm_out,             \* history: the last iteration of FSMService.run
    tx_log,              \* history: per command, emission time of its last transmission
    tx_last,             \* history: the last write to the serial device
    gps_state,           \* ctx.gps_state
    nav_pc,              \* position of PatrolService.run
    nav_loop,            \* PatrolService.loop
    idx,                 \* PatrolService.idx
    nav_state,           \* PatrolService.state
    last_pos,            \* PatrolService._last_pos: <<>> for None, else <<(lat, lon, ts)>>
    heading_deg,         \* PatrolService._heading_deg: <<>> for None, else <<degrees>>
    last_at_base,        \* PatrolService._last_at_base
    has_departed_base,   \* PatrolService._has_departed_base
    nav_out,             \* history: the last iteration of PatrolService.run
    nav_prev,            \* history: where the previous valid observation was
    nav_moved,           \* history: a fix has been min_move away from the accepted point
    gps_pc,              \* position of GPSService.run
    gps_bound,           \* GPSService._callback_bound
    ser_in,              \* the characters waiting in the serial device's input (ser.in_waiting)
    dev_line,            \* the rest of the line the microcontroller is sending
    dev_count,           \* number of lines the microcontroller has begun
    rx_running,          \* STM32Communicator.running
    rx_pc,               \* position of STM32Communicator._receive_loop
    rx_buffer,           \* _receive_loop's local buffer
    command_lock,        \* STM32Communicator.command_lock: 0 when free, else its holder
    snd_pc,              \* per caller, position in send_command
    snd_start,           \* per caller, _wait_for_response's start_time
    collected_lines,     \* per caller, _wait_for_response's collected_lines
    snd_ret,             \* per caller, what its last send_command returned
    wire,                \* history: number of commands written to the device
    reply,               \* history: the lines completed by the device since the last write
    gps_sent,            \* history: the fixes of the well-formed GPS lines completed by the device
    gps_cb,              \* history: the calls of gps_callback(lat, lon)
    pl_pc,               \* per producer, position in put_latest(ctx.uart_queue, item)
    pl_item,             \* per producer, the item of its call
    pl_ret,              \* per producer, what its last put_latest returned
    pl_last,             \* history: the item of the latest call of put_latest
    pl_count,            \* history: number of calls of put_latest
    pk_pc,               \* position of FSMService.run in its pack block
    pk_tries,            \* history: number of calls of _start_pack_thread_once
    pk_rises,            \* history: number of times ctx.pack_event went from clear to set
    pk_owed,             \* history: pack_event.set() was called since the last spawn attempt began
    go_delta,            \* PatrolService.run's local delta, held across the sleep of the GO block
    w_in,                \* the argument of a call of _wrap180
    w_out,               \* what the call returned: <<>> before it returns
    stale_timeout_s,     \* GPSService.stale_timeout_s
    mon_pc,              \* position of _check_stale_and_mark_invalid
    mon_gs,              \* its local gs, the copy it decides on
    gps_lock,            \* ctx._gps_lock is held by a set_gps under way
    gps_snap,            \* the last get_gps_copy() of a reader (navigator, detector)
    gps_written,         \* history: the position and ts stored by each completed set_gps
    dector_pc,           \* position of DECTOR_ser.run: "run", "dead" or "done"
    uart_required,       \* main's uart_required
    emit_hist            \* history: the commands _emit_uart passed to put_latest, in order

ctxVars  == <<ctxAttrs, system_stop_event, dector_queue, uart_queue,
              patrol_cmd_queue, pack_event, pack_in_progress, pack_jobs>>
fsmVars  == <<fsm_pc, last_violation_ts, last_sent_cmd, last_sent_ts,
              patrol_cached_cmd, patrol_cached_ts, fsm_out>>
pumpVars == <<pump_pc, pump_item, pump_last_cmd, pump_last_ts, tx_log, tx_last>>
mainVars == <<main_pc, join_ts, ser_open>>
navVars  == <<gps_state, nav_pc, nav_loop, idx, nav_state, last_pos, heading_deg,
              last_at_base, has_departed_base, nav_out, nav_prev, nav_moved,
              gps_pc, gps_bound>>
linkVars == <<ser_in, dev_line, dev_count, rx_running, rx_pc, rx_buffer, command_lock,
              snd_pc, snd_start, collected_lines, snd_ret, wire, reply, gps_sent, gps_cb>>
putVars  == <<pl_pc, pl_item, pl_ret, pl_last, pl_count, emit_hist>>
packVars == <<pk_pc, pk_tries, pk_rises, pk_owed>>
goVars   == <<go_delta>>
wrapVars == <<w_in, w_out>>
gpsVars  == <<stale_timeout_s, mon_pc, mon_gs, gps_lock, gps_snap, gps_written>>
supVars  == <<dector_pc, uart_required>>
auxVars  == <<goVars, wrapVars, gpsVars, supVars>>
vars     == <<now, ctxVars, dector_mock, fsmVars, pumpVars, mainVars, navVars, linkVars,
              putVars, packVars, auxVars>>

-----------------------------------------------------------------------------
(* Configuration: the defaults of FSMService.__init__ and uart_pump. *)

HoldAfterLostS == 4
PatrolStaleS == 12
CmdDedupS == 2
PumpMinInterval == 1
JoinTimeout == 2

StopCmd == <<"S">>
ViolationCmd == <<"E", "R", "R", "O", "R">>

\* The suggestions PatrolService builds: f"F{forward_sec:04d}", f"R0{deg:03d}",
\* f"L0{deg:03d}", here with forward_sec = 2 and deg = 90.
ForwardCmd == <<"F", "0", "0", "0", "2">>
RotateRCmd == <<"R", "0", "0", "9", "0">>
RotateLCmd == <<"L", "0", "0", "9", "0">>
PatrolCmds == {ForwardCmd, RotateRCmd}
Commands == {StopCmd, ViolationCmd} \cup PatrolCmds

(* Bounds of the model. *)
Horizon == 5
HorizonShutdown == 2
HorizonCtx == 14
HorizonPack == 1
ClockStepCtx == 2
HorizonNav == 1

\* time.time() at start-up: far beyond every threshold, so that a timestamp
\* of 0.0 ("never") is older than each of them.
Epoch == PatrolStaleS + HoldAfterLostS

-----------------------------------------------------------------------------
(* src/global_ctx.py *)

\* The names global_ctx.py binds at module level.
CtxDeclared ==
    {"config", "uart_queue", "fsm_queue", "dector_queue", "upload_queue",
     "system_stop_event", "uart", "put_latest", "gps_state", "set_gps",
     "set_gps_invalid", "get_gps_copy", "mission_state", "set_mission",
     "get_mission_copy"}

\* The names fsm.py and patrol_logic.py read from ctx that global_ctx.py does
\* not bind.
CtxUndeclared ==
    {"patrol_cmd_queue", "pack_event", "pack_lock", "pack_in_progress"}

QueueMaxsize == 1

\* put_latest: when full drop the oldest, then put_nowait.
PutLatest(q, item) ==
    IF Len(q) >= QueueMaxsize THEN Append(Tail(q), item) ELSE Append(q, item)

-----------------------------------------------------------------------------
(* Events of src/services/dector.py, as the dicts it builds. *)

ViolationEv == [type |-> "violation", class_name |-> "ebike"]
DetectionEv == [type |-> "detection", class_name |-> "motorcycle"]
\* fake_ev of the mock mode has no "type" key.
FakeEv == [class_name |-> "motorcycle", conf |-> 99]

\* ev.get("type", "")
EventType(ev) == IF "type" \in DOMAIN ev THEN ev.type ELSE ""

-----------------------------------------------------------------------------
(* src/core/fsm.py *)

EventHasTargetAny(evq) == evq # <<>>

\* _event_has_target on the result of _poll_dector_event: evq is <<>> for
\* None (empty slot), else <<ev>>.
EventHasTarget(evq) ==
    IF evq = <<>> THEN FALSE ELSE EventType(evq[1]) = "violation"

DecideOutputPatrolFirst(n, lv, pcmd, pts) ==
    IF Len(pcmd) > 0 /\ (n - pts) <= PatrolStaleS
    THEN [cmd |-> pcmd, reason |-> "patrol"]
    ELSE IF (n - lv) <= HoldAfterLostS
    THEN [cmd |-> ViolationCmd, reason |-> "violation_override"]
    ELSE [cmd |-> StopCmd, reason |-> "idle_stop"]

DecideOutputNoStale(n, lv, pcmd, pts) ==
    IF (n - lv) <= HoldAfterLostS
    THEN [cmd |-> ViolationCmd, reason |-> "violation_override"]
    ELSE IF Len(pcmd) > 0
    THEN [cmd |-> pcmd, reason |-> "patrol"]
    ELSE [cmd |-> StopCmd, reason |-> "idle_stop"]

DecideOutputStrictStale(n, lv, pcmd, pts) ==
    IF (n - lv) <= HoldAfterLostS
    THEN [cmd |-> ViolationCmd, reason |-> "violation_override"]
    ELSE IF Len(pcmd) > 0 /\ (n - pts) < PatrolStaleS
    THEN [cmd |-> pcmd, reason |-> "patrol"]
    ELSE [cmd |-> StopCmd, reason |-> "idle_stop"]

\* _decide_output at time n with _last_violation_ts = lv and the cached
\* suggestion (pcmd, pts).
DecideOutput(n, lv, pcmd, pts) ==
    LET violation_active == (n - lv) <= HoldAfterLostS
        patrol_fresh == Len(pcmd) > 0 /\ ((n - pts) <= PatrolStaleS)
    IN  IF violation_active
        THEN [cmd |-> ViolationCmd, reason |-> "violation_override"]
        ELSE IF patrol_fresh
        THEN [cmd |-> pcmd, reason |-> "patrol"]
        ELSE [cmd |-> StopCmd, reason |-> "idle_stop"]

EmitSuppressedNever(cmd, n, lsc, lst) == FALSE

\* The early return of _emit_uart.
\* A variant that suppresses whatever comes within cmd_dedup_s of the last
\* command sent.
EmitSuppressedByTime(cmd, n, lsc, lst) == (n - lst) < CmdDedupS

EmitSuppressed(cmd, n, lsc, lst) == cmd = lsc /\ (n - lst) < CmdDedupS

\* The item _emit_uart queues; ets, prev and reason are history tags (when it
\* was emitted, the command sent before it, and why).
UartItem(cmd, n, prev, reason) ==
    [none |-> FALSE, cmd |-> cmd, ets |-> n, prev |-> prev, reason |-> reason]

\* The sentinel main queues: None.
NoneItem == [none |-> TRUE, cmd |-> <<>>, ets |-> 0, prev |-> <<>>, reason |-> "sentinel"]

\* _emit_uart(cmd, reason) at time n.
EmitUart(cmd, reason, n) ==
    IF EmitSuppressed(cmd, n, last_sent_cmd, last_sent_ts)
    THEN UNCHANGED <<uart_queue, last_sent_cmd, last_sent_ts>>
    ELSE /\ uart_queue' = PutLatest(uart_queue, UartItem(cmd, n, last_sent_cmd, reason))
         /\ last_sent_cmd' = cmd
         /\ last_sent_ts' = n

\* History: what an iteration (or the final emit) saw and did. out is what
\* it passed to _emit_uart, evq what it drained; lv, pcmd and pts are the
\* violation time and the cached suggestion it decided on. put_gap is the
\* time since the previous send when this one queues the same command again
\* (-1 otherwise).
History(out, evq, lv, pcmd, pts) ==
    LET queued == ~EmitSuppressed(out.cmd, now, last_sent_cmd, last_sent_ts)
    IN  [cmd |-> out.cmd, reason |-> out.reason, evq |-> evq,
         hold |-> (now - lv) <= HoldAfterLostS,
         held |-> (now - last_violation_ts) <= HoldAfterLostS,
         cached |-> pcmd # <<>>,
         stale |-> (now - pts) > PatrolStaleS,
         queued |-> queued,
         prev |-> last_sent_cmd,
         put_gap |-> IF queued /\ last_sent_cmd = out.cmd
                     THEN now - last_sent_ts ELSE -1,
         trigger |-> ("pack_event" \in ctxAttrs /\ pack_event),
         busy |-> pack_in_progress,
         packed |-> pack_jobs' > pack_jobs]

\* _poll_patrol_cmd: ctx.patrol_cmd_queue raises AttributeError when the
\* module does not bind it, which the method catches as "no item".
PollPatrolCmd ==
    IF "patrol_cmd_queue" \in ctxAttrs /\ patrol_cmd_queue # <<>>
    THEN /\ patrol_cached_cmd' = patrol_cmd_queue[1].cmd
         /\ patrol_cached_ts' = patrol_cmd_queue[1].ts
         /\ patrol_cmd_queue' = Tail(patrol_cmd_queue)
    ELSE UNCHANGED <<patrol_cached_cmd, patrol_cached_ts, patrol_cmd_queue>>

StartPackThreadAlways == TRUE

\* The admission test of _start_pack_thread_once, under ctx.pack_lock.
StartPackThreadAdmits == ~pack_in_progress

\* The pack step of FSMService.run; crash tells that an AttributeError left
\* run() (ctx.pack_lock or ctx.pack_in_progress unbound).
PackStep(crash) ==
    IF "pack_event" \in ctxAttrs /\ pack_event
    THEN /\ pack_event' = FALSE
         /\ IF {"pack_lock", "pack_in_progress"} \subseteq ctxAttrs
            THEN /\ crash = FALSE
                 /\ IF StartPackThreadAdmits
                    THEN /\ pack_in_progress' = TRUE
                         /\ pack_jobs' = pack_jobs + 1
                    ELSE UNCHANGED <<pack_in_progress, pack_jobs>>
            ELSE /\ crash = TRUE
                 /\ UNCHANGED <<pack_in_progress, pack_jobs>>
    ELSE /\ crash = FALSE
         /\ UNCHANGED <<pack_event, pack_in_progress, pack_jobs>>

\* while not ctx.system_stop_event.is_set()
FsmCheck ==
    /\ UNCHANGED <<navVars, linkVars, putVars, packVars, auxVars>>
    /\ fsm_pc = "check"
    /\ fsm_pc' = IF system_stop_event THEN "final" ELSE "body"
    /\ UNCHANGED <<now, ctxVars, dector_mock, pumpVars, mainVars,
                   last_violation_ts, last_sent_cmd, last_sent_ts,
                   patrol_cached_cmd, patrol_cached_ts, fsm_out>>

\* One iteration of the loop of FSMService.run.
FsmBody ==
    /\ UNCHANGED <<navVars, linkVars, putVars, packVars, auxVars>>
    /\ fsm_pc = "body"
    /\ LET evq == dector_queue
           lv  == IF EventHasTarget(evq) THEN now ELSE last_violation_ts
       IN  /\ dector_queue' = <<>>
           /\ last_violation_ts' = lv
           /\ PollPatrolCmd
           /\ \E crash \in BOOLEAN :
                 /\ PackStep(crash)
                 /\ fsm_pc' = IF crash THEN "crashed" ELSE "check"
           /\ LET out == DecideOutput(now, lv, patrol_cached_cmd', patrol_cached_ts')
              IN  /\ EmitUart(out.cmd, out.reason, now)
                  /\ fsm_out' = History(out, evq, lv, patrol_cached_cmd', patrol_cached_ts')
    /\ UNCHANGED <<now, ctxAttrs, system_stop_event, dector_mock, pumpVars, mainVars>>

\* self._emit_uart(self.stop_cmd, "shutdown_stop") after the loop.
FsmFinal ==
    /\ UNCHANGED <<navVars, linkVars, putVars, packVars, auxVars>>
    /\ fsm_pc = "final"
    /\ UNCHANGED <<now, ctxAttrs, system_stop_event, dector_queue, patrol_cmd_queue,
                   pack_event, pack_in_progress, pack_jobs, dector_mock,
                   last_violation_ts, patrol_cached_cmd, patrol_cached_ts,
                   pumpVars, mainVars>>
    /\ EmitUart(StopCmd, "shutdown_stop", now)
    /\ fsm_out' = History([cmd |-> StopCmd, reason |-> "shutdown_stop"], <<>>,
                          last_violation_ts, patrol_cached_cmd, patrol_cached_ts)
    /\ fsm_pc' = "done"

\* A variant that clears the flag after build_zip_for_data returned only.
PackFlagAfterJobOnSuccess(raised) == raised

\* ctx.pack_in_progress after _job: the finally clause clears it, whether
\* build_zip_for_data returned or raised.
PackFlagAfterJob(raised) == FALSE

\* _job of _start_pack_thread_once: build_zip_for_data returns or raises, and
\* the finally clause clears the flag.
PackJobDone ==
    /\ UNCHANGED <<navVars, linkVars, putVars, packVars, auxVars>>
    /\ pack_jobs > 0
    /\ pack_jobs' = pack_jobs - 1
    /\ \E raised \in BOOLEAN : pack_in_progress' = PackFlagAfterJob(raised)
    /\ UNCHANGED <<now, ctxAttrs, system_stop_event, dector_queue, uart_queue,
                   patrol_cmd_queue, pack_event, dector_mock, fsmVars, pumpVars, mainVars>>

-----------------------------------------------------------------------------
(* src/main.py: the serial pump *)

Whitespace == {" ", "\t", "\n", "\r"}

RECURSIVE LStrip(_)
LStrip(c) == IF c # <<>> /\ c[1] \in Whitespace THEN LStrip(Tail(c)) ELSE c

RECURSIVE RStrip(_)
RStrip(c) ==
    IF c # <<>> /\ c[Len(c)] \in Whitespace THEN RStrip(SubSeq(c, 1, Len(c) - 1)) ELSE c

\* str.strip()
Strip(c) == RStrip(LStrip(c))

\* str.startswith(p)
StartsWith(c, p) == Len(c) >= Len(p) /\ SubSeq(c, 1, Len(p)) = p

\* _cmd_kind; "none" is the None it returns by falling off the end.
CmdKind(cmd) ==
    LET c == Strip(cmd)
    IN  IF c \in {<<"S">>, <<"S", "T", "O", "P">>} \/ (StartsWith(c, <<"S">>) /\ Len(c) >= 2)
        THEN "stop"
        ELSE IF \E p \in {<<"R", "0">>, <<"L", "0">>, <<"D">>, <<"A">>} : StartsWith(c, p)
        THEN "discrete"
        ELSE "none"

\* A variant of the dedup block that treats a repeated stop like any other
\* repeated command.
PumpDropsStopToo(cmd, n, lcmd, lts) ==
    /\ cmd = lcmd
    /\ (CmdKind(cmd) = "discrete" \/ (n - lts) < PumpMinInterval)

\* The "continue" of the dedup block of uart_pump. MIN_INTERVAL_CONTINUOUS
\* and the 0.5 of the last branch are both PumpMinInterval.
PumpDrops(cmd, n, lcmd, lts) ==
    /\ cmd = lcmd
    /\ LET kind == CmdKind(cmd)
       IN  CASE kind = "stop" -> FALSE
             [] kind = "discrete" -> TRUE
             [] kind = "continuous" -> (n - lts) < PumpMinInterval
             [] OTHER -> (n - lts) < PumpMinInterval

\* while not ctx.system_stop_event.is_set()
PumpLoop ==
    /\ UNCHANGED <<navVars, linkVars, putVars, packVars, auxVars>>
    /\ pump_pc = "loop"
    /\ pump_pc' = IF system_stop_event THEN "done" ELSE "get"
    /\ UNCHANGED <<now, ctxVars, dector_mock, fsmVars, mainVars,
                   pump_item, pump_last_cmd, pump_last_ts, tx_log, tx_last>>

\* A variant of get that leaves the item in the queue.
QueueGetPeek(q) == [item |-> q[1], rest |-> q]

\* queue.Queue.get on a queue that is not empty: the oldest item is taken out.
QueueGet(q) == [item |-> q[1], rest |-> Tail(q)]

\* cmd = ctx.uart_queue.get(timeout=0.2); on queue.Empty, continue.
PumpGet ==
    /\ UNCHANGED <<navVars, linkVars, putVars, packVars, auxVars>>
    /\ pump_pc = "get"
    /\ IF uart_queue # <<>>
       THEN /\ pump_item' = QueueGet(uart_queue).item
            /\ uart_queue' = QueueGet(uart_queue).rest
            /\ pump_pc' = "handle"
       ELSE /\ pump_pc' = "loop"
            /\ UNCHANGED <<pump_item, uart_queue>>
    /\ UNCHANGED <<now, ctxAttrs, system_stop_event, dector_queue, patrol_cmd_queue,
                   pack_event, pack_in_progress, pack_jobs, dector_mock, fsmVars,
                   mainVars, pump_last_cmd, pump_last_ts, tx_log, tx_last>>

\* The rest of the iteration: the None test, strip, the is_open test, the
\* dedup and uart.send_command(cmd, wait_for_response=False), which writes
\* only to an open device.
PumpHandle ==
    /\ UNCHANGED <<navVars, linkVars, putVars, packVars, auxVars>>
    /\ pump_pc = "handle"
    /\ LET cmd == Strip(pump_item.cmd)
       IN  IF pump_item.none
           THEN /\ pump_pc' = "done"
                /\ UNCHANGED <<pump_last_cmd, pump_last_ts, tx_log, tx_last>>
           ELSE /\ pump_pc' = "loop"
                /\ IF cmd = <<>> \/ ~ser_open
                      \/ PumpDrops(cmd, now, pump_last_cmd, pump_last_ts)
                   THEN UNCHANGED <<pump_last_cmd, pump_last_ts, tx_log, tx_last>>
                   ELSE /\ pump_last_cmd' = cmd
                        /\ pump_last_ts' = now
                        /\ tx_log' = [tx_log EXCEPT ![cmd] = pump_item.ets]
                        /\ tx_last' = [cmd |-> cmd, prev |-> pump_item.prev,
                                       reason |-> pump_item.reason,
                                       gap |-> IF tx_log[cmd] = 0 THEN -1
                                               ELSE pump_item.ets - tx_log[cmd]]
    /\ pump_item' = NoneItem
    /\ UNCHANGED <<now, ctxVars, dector_mock, fsmVars, mainVars>>

-----------------------------------------------------------------------------
(* src/main.py: the finally clause of main *)

\* KeyboardInterrupt, or a break of the supervision loop: system_stop_event.set()
MainStop ==
    /\ UNCHANGED <<navVars, linkVars, putVars, packVars, auxVars>>
    /\ main_pc = "running"
    /\ system_stop_event' = TRUE
    /\ main_pc' = "sentinel"
    /\ UNCHANGED <<now, ctxAttrs, dector_queue, uart_queue, patrol_cmd_queue, pack_event,
                   pack_in_progress, pack_jobs, dector_mock, fsmVars, pumpVars,
                   join_ts, ser_open>>

\* ctx.put_latest(ctx.uart_queue, None)
MainSentinel ==
    /\ UNCHANGED <<navVars, linkVars, putVars, packVars, auxVars>>
    /\ main_pc = "sentinel"
    /\ uart_queue' = PutLatest(uart_queue, NoneItem)
    /\ main_pc' = "join_pump"
    /\ join_ts' = now
    /\ UNCHANGED <<now, ctxAttrs, system_stop_event, dector_queue, patrol_cmd_queue,
                   pack_event, pack_in_progress, pack_jobs, dector_mock, fsmVars,
                   pumpVars, ser_open>>

\* uart_thread.join(timeout=1.0): returns when the pump has exited or the
\* timeout has passed.
MainJoinPump ==
    /\ UNCHANGED <<navVars, linkVars, putVars, packVars, auxVars>>
    /\ main_pc = "join_pump"
    /\ pump_pc = "done" \/ (now - join_ts) >= JoinTimeout
    /\ main_pc' = "disconnect"
    /\ UNCHANGED <<now, ctxVars, dector_mock, fsmVars, pumpVars, join_ts, ser_open>>

\* STM32Communicator.disconnect: running = False, then self.ser.close().
Disconnect ==
    /\ rx_running' = FALSE
    /\ ser_open' = FALSE

\* ctx.uart.disconnect()
MainDisconnect ==
    /\ UNCHANGED <<navVars, ser_in, dev_line, dev_count, rx_pc, rx_buffer, command_lock,
                   snd_pc, snd_start, collected_lines, snd_ret, wire, reply, gps_sent, gps_cb, putVars, packVars, auxVars>>
    /\ main_pc = "disconnect"
    /\ Disconnect
    /\ main_pc' = "join_fsm"
    /\ join_ts' = now
    /\ UNCHANGED <<now, ctxVars, dector_mock, fsmVars, pumpVars>>

\* dector_thread.join(timeout=2); fsm_thread.join(timeout=2)
MainJoinFsm ==
    /\ UNCHANGED <<navVars, linkVars, putVars, packVars, auxVars>>
    /\ main_pc = "join_fsm"
    /\ fsm_pc \in {"done", "crashed"} \/ (now - join_ts) >= 2 * JoinTimeout
    /\ main_pc' = "done"
    /\ UNCHANGED <<now, ctxVars, dector_mock, fsmVars, pumpVars, join_ts, ser_open>>

-----------------------------------------------------------------------------
(* Producers and the clock *)

\* _yolo_postprocess: a violation event, or else the best detection, evicts
\* what the slot holds.
DectorPush ==
    /\ UNCHANGED <<navVars, linkVars, putVars, packVars, auxVars>>
    /\ ~dector_mock
    /\ ~system_stop_event
    /\ \E ev \in {ViolationEv, DetectionEv} :
          dector_queue' = PutLatest(dector_queue, ev)
    /\ UNCHANGED <<now, ctxAttrs, system_stop_event, uart_queue, patrol_cmd_queue,
                   pack_event, pack_in_progress, pack_jobs, dector_mock, fsmVars,
                   pumpVars, mainVars>>

\* DECTOR_ser.run in mock mode: if not full, put(fake_ev).
DectorFake ==
    /\ UNCHANGED <<navVars, linkVars, putVars, packVars, auxVars>>
    /\ dector_mock
    /\ ~system_stop_event
    /\ Len(dector_queue) < QueueMaxsize
    /\ dector_queue' = Append(dector_queue, FakeEv)
    /\ UNCHANGED <<now, ctxAttrs, system_stop_event, uart_queue, patrol_cmd_queue,
                   pack_event, pack_in_progress, pack_jobs, dector_mock, fsmVars,
                   pumpVars, mainVars>>

\* PatrolService._emit_gps(cmd): ctx.patrol_cmd_queue raises AttributeError
\* when unbound, which the method catches and logs.
EmitGps(cmd) ==
    IF "patrol_cmd_queue" \in ctxAttrs
    THEN patrol_cmd_queue' = PutLatest(patrol_cmd_queue, [cmd |-> cmd, ts |-> now])
    ELSE UNCHANGED patrol_cmd_queue

\* A suggestion of the navigator, whatever its TURN/GO step.
PatrolSuggest ==
    /\ UNCHANGED <<navVars, linkVars, putVars, packVars, auxVars>>
    /\ ~system_stop_event
    /\ \E cmd \in PatrolCmds : EmitGps(cmd)
    /\ UNCHANGED <<now, ctxAttrs, system_stop_event, dector_queue, uart_queue,
                   pack_event, pack_in_progress, pack_jobs, dector_mock, fsmVars,
                   pumpVars, mainVars>>

\* The navigator suggests one rotation, once: nothing was suggested before.
PatrolSuggestOnce ==
    /\ UNCHANGED <<navVars, linkVars, putVars, packVars, auxVars>>
    /\ ~system_stop_event
    /\ patrol_cmd_queue = <<>>
    /\ patrol_cached_cmd = <<>>
    /\ EmitGps(RotateRCmd)
    /\ UNCHANGED <<now, ctxAttrs, system_stop_event, dector_queue, uart_queue,
                   pack_event, pack_in_progress, pack_jobs, dector_mock, fsmVars,
                   pumpVars, mainVars>>

\* The navigator's ctx.pack_event.set() on the base edge.
PackRequest ==
    /\ UNCHANGED <<navVars, linkVars, putVars, packVars, auxVars>>
    /\ "pack_event" \in ctxAttrs
    /\ pack_event' = TRUE
    /\ UNCHANGED <<now, ctxAttrs, system_stop_event, dector_queue, uart_queue,
                   patrol_cmd_queue, pack_in_progress, pack_jobs, dector_mock, fsmVars,
                   pumpVars, mainVars>>

\* Time passes, step half-seconds at a time.
ClockTick(h, step) ==
    /\ UNCHANGED <<navVars, linkVars, putVars, packVars, auxVars>>
    /\ now + step <= Epoch + h
    /\ now' = now + step
    /\ UNCHANGED <<ctxVars, dector_mock, fsmVars, pumpVars, mainVars>>

-----------------------------------------------------------------------------
(* src/core/patrol_logic.py. Positions are metres east (lon) and north (lat)
   of the base in units of half a metre, over which _haversine_m is the
   planar distance and _bearing_deg the planar bearing, in whole degrees. *)

ArriveRadiusM == 6
HeadingUpdateMinMoveM == 2
TurnThresholdDeg == 8
ForwardSec == 2

Pt(lon, lat) == [lat |-> lat, lon |-> lon]

\* cfg "waypoints": the base and one more.
Waypoints == <<Pt(0, 0), Pt(14, 0)>>

\* The fixes the receiver reports.
Fixes == {Pt(0, 0), Pt(1, 0), Pt(6, 0), Pt(7, 0), Pt(14, 0), Pt(14, 6), Pt(7, 7)}

\* _haversine_m, squared.
HaversineSq(p, q) ==
    (q.lon - p.lon) * (q.lon - p.lon) + (q.lat - p.lat) * (q.lat - p.lat)

\* atan2(east, north) in degrees, normalised to [0, 360), by displacement.
BearingTable ==
    <<-14, -6>> :> 247 @@ <<-14, 0>> :> 270 @@ <<-13, -6>> :> 245 @@ <<-13, 0>> :> 270 @@
    <<-8, -6>> :> 233 @@ <<-8, 0>> :> 270 @@ <<-7, -7>> :> 225 @@ <<-7, -6>> :> 229 @@
    <<-7, 0>> :> 270 @@ <<-7, 1>> :> 278 @@ <<-7, 7>> :> 315 @@ <<-6, -7>> :> 221 @@
    <<-6, 0>> :> 270 @@ <<-5, 0>> :> 270 @@ <<-1, -7>> :> 188 @@ <<-1, 0>> :> 270 @@
    <<0, -7>> :> 180 @@ <<0, -6>> :> 180 @@ <<0, 0>> :> 0 @@ <<0, 6>> :> 0 @@
    <<0, 7>> :> 0 @@ <<1, 0>> :> 90 @@ <<1, 7>> :> 8 @@ <<5, 0>> :> 90 @@
    <<6, 0>> :> 90 @@ <<6, 7>> :> 41 @@ <<7, -7>> :> 135 @@ <<7, -1>> :> 98 @@
    <<7, 0>> :> 90 @@ <<7, 6>> :> 49 @@ <<7, 7>> :> 45 @@ <<8, 0>> :> 90 @@
    <<8, 6>> :> 53 @@ <<13, 0>> :> 90 @@ <<13, 6>> :> 65 @@ <<14, 0>> :> 90 @@
    <<14, 6>> :> 67

\* _bearing_deg
BearingDeg(p, q) == BearingTable[<<q.lon - p.lon, q.lat - p.lat>>]

\* _wrap180
Wrap180(deg) == ((deg + 180) % 360) - 180

AbsOfPositive(x) == x

\* abs
Abs(x) == IF x < 0 THEN -x ELSE x

Digits == <<"0", "1", "2", "3", "4", "5", "6", "7", "8", "9">>

\* format(n, "0{w}d") for 0 <= n < 10^w
RECURSIVE Fmt(_, _)
Fmt(n, w) == IF w = 0 THEN <<>> ELSE Fmt(n \div 10, w - 1) \o <<Digits[(n % 10) + 1]>>

MovedEnoughAlways(dsq) == TRUE

\* dist >= self.heading_update_min_move_m
MovedEnough(dsq) == dsq >= HeadingUpdateMinMoveM * HeadingUpdateMinMoveM

\* _update_heading_from_motion(lat, lon, ts): the new (_last_pos, _heading_deg).
UpdateHeadingFromMotion(fix, ts) ==
    IF last_pos = <<>>
    THEN [pos |-> <<[lat |-> fix.lat, lon |-> fix.lon, ts |-> ts]>>, heading |-> heading_deg]
    ELSE IF MovedEnough(HaversineSq(last_pos[1], fix))
    THEN [pos |-> <<[lat |-> fix.lat, lon |-> fix.lon, ts |-> ts]>>,
          heading |-> <<BearingDeg(last_pos[1], fix)>>]
    ELSE [pos |-> last_pos, heading |-> heading_deg]

NextWaypointAlwaysWrap(i) == IF i + 1 >= Len(Waypoints) THEN 0 ELSE i + 1

\* _next_waypoint: the new idx.
NextWaypoint(i) ==
    IF i + 1 >= Len(Waypoints)
    THEN IF nav_loop THEN 0 ELSE Len(Waypoints)
    ELSE i + 1

\* dist <= self.arrive_radius_m
WithinArriveRadius(p, q) == HaversineSq(p, q) <= ArriveRadiusM * ArriveRadiusM

\* The rising edge of the base-return test.
BaseEdge(departed, at_base, was_at_base) == departed /\ at_base /\ ~was_at_base

TurnGoStepHeadingZero(heading, brng_tgt) ==
    LET delta == Wrap180(brng_tgt - (IF heading = <<>> THEN 0 ELSE heading[1]))
        deg == IF Abs(delta) > 359 THEN 359 ELSE Abs(delta)
    IN  IF nav_state = "TURN"
        THEN IF Abs(delta) <= TurnThresholdDeg
             THEN [emit |-> <<>>, state |-> "GO"]
             ELSE [emit |-> <<(IF delta > 0 THEN <<"R", "0">> ELSE <<"L", "0">>)
                                \o Fmt(deg, 3)>>,
                   state |-> "GO"]
        ELSE [emit |-> <<<<"F">> \o Fmt(ForwardSec, 4)>>,
              state |-> IF Abs(delta) > TurnThresholdDeg THEN "TURN" ELSE "GO"]

\* The rest of an iteration once the fix is valid and the target not
\* reached: the suggestion (<<>> for none) and the new state.
TurnGoStep(heading, brng_tgt) ==
    IF heading = <<>>
    THEN [emit |-> <<<<"F">> \o Fmt(ForwardSec, 4)>>, state |-> nav_state]
    ELSE LET delta == Wrap180(brng_tgt - heading[1])
             deg == IF Abs(delta) > 359 THEN 359 ELSE Abs(delta)
         IN  IF nav_state = "TURN"
             THEN IF Abs(delta) <= TurnThresholdDeg
                  THEN [emit |-> <<>>, state |-> "GO"]
                  ELSE IF deg > 0
                  THEN [emit |-> <<(IF delta > 0 THEN <<"R", "0">> ELSE <<"L", "0">>)
                                      \o Fmt(deg, 3)>>,
                        state |-> "GO"]
                  ELSE [emit |-> <<>>, state |-> "GO"]
             ELSE IF nav_state = "GO"
             THEN [emit |-> <<<<"F">> \o Fmt(ForwardSec, 4)>>,
                   state |-> IF Abs(delta) > TurnThresholdDeg THEN "TURN" ELSE "GO"]
             ELSE [emit |-> <<>>, state |-> "TURN"]

NoNavOut ==
    [obs |-> FALSE, inside |-> FALSE, edge |-> FALSE, fired |-> FALSE,
     jitter |-> FALSE, arrived |-> FALSE, emit |-> <<>>]

RouteFinishedAtLast == (~nav_loop) /\ idx >= Len(Waypoints) - 1

\* (not self.loop) and (self.idx >= len(self.waypoints))
RouteFinished == (~nav_loop) /\ idx >= Len(Waypoints)

\* A variant of the test that looks at the coordinates only.
FixInvalidNoFix(gs) == gs.fix = <<>>

\* (not ok) or (lat is None) or (lon is None)
FixInvalid(gs) == ~gs.ok \/ gs.fix = <<>>

\* One iteration of the loop of PatrolService.run, on a snapshot of
\* ctx.gps_state.
NavStep ==
    /\ nav_pc = "run"
    /\ ~system_stop_event
    /\ UNCHANGED <<now, ctxAttrs, system_stop_event, dector_queue, uart_queue,
                   pack_in_progress, pack_jobs, dector_mock, fsmVars, pumpVars, mainVars,
                   gps_state, nav_loop, gps_pc, gps_bound, linkVars, putVars, packVars, auxVars>>
    /\ IF RouteFinished
       THEN /\ nav_pc' = "finished"
            /\ nav_out' = NoNavOut
            /\ UNCHANGED <<idx, nav_state, last_pos, heading_deg, last_at_base,
                           has_departed_base, nav_prev, nav_moved, pack_event,
                           patrol_cmd_queue>>
       ELSE IF FixInvalid(gps_state)
       THEN /\ nav_out' = NoNavOut
            /\ UNCHANGED <<nav_pc, idx, nav_state, last_pos, heading_deg, last_at_base,
                           has_departed_base, nav_prev, nav_moved, pack_event,
                           patrol_cmd_queue>>
       ELSE LET fix == gps_state.fix[1]
                upd == UpdateHeadingFromMotion(fix, gps_state.ts)
                tgt == Waypoints[idx + 1]
                arrived == WithinArriveRadius(fix, tgt)
                brng_tgt == BearingDeg(fix, tgt)
                at_base == WithinArriveRadius(fix, Waypoints[1])
                departed == has_departed_base \/ ~at_base
                edge == BaseEdge(departed, at_base, last_at_base)
                fired == edge /\ "pack_event" \in ctxAttrs
                step == TurnGoStep(upd.heading, brng_tgt)
                emit == IF arrived THEN <<>> ELSE step.emit
            IN  /\ last_pos' = upd.pos
                /\ heading_deg' = upd.heading
                /\ has_departed_base' = departed
                /\ last_at_base' = at_base
                /\ pack_event' = (pack_event \/ fired)
                /\ idx' = IF arrived THEN NextWaypoint(idx) ELSE idx
                /\ nav_state' = IF arrived THEN "TURN" ELSE step.state
                /\ IF emit # <<>> THEN EmitGps(emit[1]) ELSE UNCHANGED patrol_cmd_queue
                /\ nav_pc' = nav_pc
                /\ nav_out' = [obs |-> TRUE, inside |-> at_base,
                               edge |-> at_base /\ nav_prev = "out",
                               fired |-> fired,
                               jitter |-> (last_pos # <<>> /\ fix # Pt(last_pos[1].lon, last_pos[1].lat)
                                           /\ HaversineSq(last_pos[1], fix)
                                                < HeadingUpdateMinMoveM * HeadingUpdateMinMoveM),
                               arrived |-> arrived, emit |-> emit]
                /\ nav_prev' = IF at_base THEN "in" ELSE "out"
                /\ nav_moved' = (nav_moved \/ (last_pos # <<>> /\
                                    HaversineSq(last_pos[1], fix)
                                      >= HeadingUpdateMinMoveM * HeadingUpdateMinMoveM))

\* GPSService._on_gps -> ctx.set_gps(lat, lon, ok=True), for a position of S.
GpsFixIn(S) ==
    /\ \E p \in S : gps_state' = [ok |-> TRUE, fix |-> <<p>>, ts |-> now]
    /\ UNCHANGED <<now, ctxVars, dector_mock, fsmVars, pumpVars, mainVars, nav_pc,
                   nav_loop, idx, nav_state, last_pos, heading_deg, last_at_base,
                   has_departed_base, nav_out, nav_prev, nav_moved, gps_pc, gps_bound,
                   linkVars, putVars, packVars, auxVars>>

\* The receiver reports positions for a while and then no more.
FixUntil == 4
LossFixes == {Pt(7, 0)}

\* GPSService._on_gps -> ctx.set_gps(lat, lon, ok=True), while the receiver
\* still reports.
GpsFixEarly ==
    /\ now <= Epoch + FixUntil
    /\ \E p \in LossFixes : gps_state' = [ok |-> TRUE, fix |-> <<p>>, ts |-> now]
    /\ UNCHANGED <<now, ctxVars, dector_mock, fsmVars, pumpVars, mainVars, nav_pc,
                   nav_loop, idx, nav_state, last_pos, heading_deg, last_at_base,
                   has_departed_base, nav_out, nav_prev, nav_moved, gps_pc, gps_bound,
                   linkVars, putVars, packVars, auxVars>>

\* GPSService._on_gps -> ctx.set_gps(lat, lon, ok=True)
GpsFix ==
    /\ \E p \in Fixes : gps_state' = [ok |-> TRUE, fix |-> <<p>>, ts |-> now]
    /\ UNCHANGED <<now, ctxVars, dector_mock, fsmVars, pumpVars, mainVars, nav_pc,
                   nav_loop, idx, nav_state, last_pos, heading_deg, last_at_base,
                   has_departed_base, nav_out, nav_prev, nav_moved, gps_pc, gps_bound,
                   linkVars, putVars, packVars, auxVars>>

\* GPSService._check_stale_and_mark_invalid -> ctx.set_gps_invalid()
GpsInvalid ==
    /\ gps_state.ok
    /\ gps_state' = [gps_state EXCEPT !.ok = FALSE, !.ts = now]
    /\ UNCHANGED <<now, ctxVars, dector_mock, fsmVars, pumpVars, mainVars, nav_pc,
                   nav_loop, idx, nav_state, last_pos, heading_deg, last_at_base,
                   has_departed_base, nav_out, nav_prev, nav_moved, gps_pc, gps_bound,
                   linkVars, putVars, packVars, auxVars>>

\* cfg "stale_timeout_s", default 2.0.
StaleTimeoutS == 4

HorizonStop == 6
ClockStepStop == 6

\* The positions reported while the program is stopped.
StopFixes == {Pt(7, 0)}

\* The test of the bind-retry loop of GPSService.run.
BindLoopRuns == (~system_stop_event) /\ (~gps_bound)

\* One iteration of the bind-retry loop of GPSService.run: _try_bind_callback
\* returns False while ctx.uart is None, else binds and the loop breaks.
GpsRunBind ==
    /\ gps_pc = "bind"
    /\ IF BindLoopRuns
       THEN \E ok \in BOOLEAN :
               /\ gps_bound' = ok
               /\ gps_pc' = IF ok THEN "monitor" ELSE "bind"
       ELSE /\ gps_pc' = "monitor"
            /\ UNCHANGED gps_bound
    /\ UNCHANGED <<now, ctxVars, dector_mock, fsmVars, pumpVars, mainVars, gps_state,
                   nav_pc, nav_loop, idx, nav_state, last_pos, heading_deg, last_at_base,
                   has_departed_base, nav_out, nav_prev, nav_moved, linkVars, putVars, packVars, auxVars>>

MonitorLoopRunsAlways == TRUE

\* The test of the monitor loop of GPSService.run.
MonitorLoopRuns == ~system_stop_event

\* One iteration of the monitor loop of GPSService.run, or its exit.
GpsRunMonitor ==
    /\ gps_pc = "monitor"
    /\ IF ~MonitorLoopRuns
       THEN /\ gps_pc' = "done"
            /\ UNCHANGED gps_state
       ELSE /\ gps_pc' = gps_pc
            /\ gps_state' = IF gps_state.ok /\ (now - gps_state.ts) > StaleTimeoutS
                            THEN [gps_state EXCEPT !.ok = FALSE, !.ts = now]
                            ELSE gps_state
    /\ UNCHANGED <<now, ctxVars, dector_mock, fsmVars, pumpVars, mainVars, gps_bound,
                   nav_pc, nav_loop, idx, nav_state, last_pos, heading_deg, last_at_base,
                   has_departed_base, nav_out, nav_prev, nav_moved, linkVars, putVars, packVars, auxVars>>

\* The test of the loop of PatrolService.run fails: run returns.
NavExit ==
    /\ nav_pc = "run"
    /\ system_stop_event
    /\ nav_pc' = "stopped"
    /\ UNCHANGED <<now, ctxVars, dector_mock, fsmVars, pumpVars, mainVars, gps_state,
                   nav_loop, idx, nav_state, last_pos, heading_deg, last_at_base,
                   has_departed_base, nav_out, nav_prev, nav_moved, gps_pc, gps_bound,
                   linkVars, putVars, packVars, auxVars>>

\* The GO block of PatrolService.run up to its sleep: an iteration on a valid
\* fix outside the target's radius with the heading set and state GO computes
\* delta, suggests the forward leg and sleeps max(0.2, forward_sec).
NavGoBegin ==
    /\ nav_pc = "run"
    /\ ~system_stop_event
    /\ nav_loop \/ idx < Len(Waypoints)
    /\ gps_state.ok /\ gps_state.fix # <<>>
    /\ nav_state = "GO"
    /\ LET fix == gps_state.fix[1]
           upd == UpdateHeadingFromMotion(fix, gps_state.ts)
           tgt == Waypoints[idx + 1]
           brng_tgt == BearingDeg(fix, tgt)
           at_base == WithinArriveRadius(fix, Waypoints[1])
           departed == has_departed_base \/ ~at_base
           edge == BaseEdge(departed, at_base, last_at_base)
           fired == edge /\ "pack_event" \in ctxAttrs
           emit == <<"F">> \o Fmt(ForwardSec, 4)
       IN  /\ ~WithinArriveRadius(fix, tgt)
           /\ upd.heading # <<>>
           /\ last_pos' = upd.pos
           /\ heading_deg' = upd.heading
           /\ has_departed_base' = departed
           /\ last_at_base' = at_base
           /\ pack_event' = (pack_event \/ fired)
           /\ go_delta' = Wrap180(brng_tgt - upd.heading[1])
           /\ EmitGps(emit)
           /\ nav_pc' = "go_sleep"
           /\ nav_out' = [obs |-> TRUE, inside |-> at_base,
                          edge |-> at_base /\ nav_prev = "out",
                          fired |-> fired,
                          jitter |-> (last_pos # <<>> /\ fix # Pt(last_pos[1].lon, last_pos[1].lat)
                                      /\ HaversineSq(last_pos[1], fix)
                                           < HeadingUpdateMinMoveM * HeadingUpdateMinMoveM),
                          arrived |-> FALSE, emit |-> <<emit>>]
           /\ nav_prev' = IF at_base THEN "in" ELSE "out"
           /\ nav_moved' = (nav_moved \/ (last_pos # <<>> /\
                               HaversineSq(last_pos[1], fix)
                                 >= HeadingUpdateMinMoveM * HeadingUpdateMinMoveM))
    /\ UNCHANGED <<now, ctxAttrs, system_stop_event, dector_queue, uart_queue,
                   pack_in_progress, pack_jobs, dector_mock, fsmVars, pumpVars, mainVars,
                   gps_state, nav_loop, idx, nav_state, gps_pc, gps_bound, linkVars,
                   putVars, packVars, wrapVars, gpsVars, supVars>>

\* The GO block after its sleep: the test of the delta computed before it.
NavGoEnd ==
    /\ nav_pc = "go_sleep"
    /\ nav_state' = IF Abs(go_delta) > TurnThresholdDeg THEN "TURN" ELSE "GO"
    /\ nav_pc' = "run"
    /\ UNCHANGED <<now, ctxVars, dector_mock, fsmVars, pumpVars, mainVars, gps_state,
                   nav_loop, idx, last_pos, heading_deg, last_at_base, has_departed_base,
                   nav_out, nav_prev, nav_moved, gps_pc, gps_bound, linkVars, putVars,
                   packVars, go_delta, wrapVars, gpsVars, supVars>>

-----------------------------------------------------------------------------
(* src/drivers/uart.py: STM32Communicator. The device's input is a stream of
   characters, which _receive_loop drains with ser.read(ser.in_waiting) and
   _wait_for_response reads with ser.readline(). response_callback is never
   set by the program and is None; gps_callback is the bound GPSService._on_gps. *)

CmdTimeout == 4

(* Bounds of the link model. *)
MaxDevLines == 2
MaxWrites == 2
SplitAt == 2
HorizonLink == 4
ClockStepLink == 4
MaxDevLinesLock == 1

\* The threads that call send_command: two of them, so that one can find the
\* lock held.
Callers == {1, 2}

\* Lines the microcontroller sends.
OkLine == <<"O", "K">>
DataLine == <<"M", "0">>
GpsLine == <<"G", "P", "S", ",", "1", ",", "2">>
DevLines == {OkLine, DataLine, GpsLine}

HasNewline(b) == \E i \in 1..Len(b) : b[i] = "\n"

\* buffer.find('\n'), 1-based
LineEnd(b) == CHOOSE i \in 1..Len(b) : b[i] = "\n" /\ \A j \in 1..(i - 1) : b[j] # "\n"

NotCR(ch) == ch # "\r"

\* line.replace('\r', '')
RemoveCR(line) == SelectSeq(line, NotCR)

\* str.split(',')
RECURSIVE Split(_)
Split(s) ==
    IF \E i \in 1..Len(s) : s[i] = ","
    THEN LET i == CHOOSE k \in 1..Len(s) : s[k] = "," /\ \A j \in 1..(k - 1) : s[j] # ","
         IN  <<SubSeq(s, 1, i - 1)>> \o Split(SubSeq(s, i + 1, Len(s)))
    ELSE <<s>>

\* Whether float(s) / int(s) returns, for strings of digits and letters.
IsNumber(s) == s # <<>> /\ \A i \in 1..Len(s) : \E d \in 1..10 : Digits[d] = s[i]

\* float(s) / int(s) of a string of digits
RECURSIVE ParseNumber(_)
ParseNumber(s) ==
    IF s = <<>> THEN 0
    ELSE 10 * ParseNumber(SubSeq(s, 1, Len(s) - 1))
         + ((CHOOSE d \in 1..10 : Digits[d] = s[Len(s)]) - 1)

\* _process_gps_data: the calls of gps_callback it makes.
\* A variant that forwards a field it cannot parse as 0.
ProcessGpsDataDefaulting(line) ==
    LET parts == Split(line)
    IN  IF Len(parts) >= 3
        THEN <<[lat |-> IF IsNumber(parts[2]) THEN ParseNumber(parts[2]) ELSE 0,
                lon |-> IF IsNumber(parts[3]) THEN ParseNumber(parts[3]) ELSE 0]>>
        ELSE <<>>

ProcessGpsData(line) ==
    LET parts == Split(line)
    IN  IF Len(parts) >= 3 /\ parts[2] # <<"N", "A">> /\ parts[3] # <<"N", "A">>
           /\ IsNumber(parts[2]) /\ IsNumber(parts[3])
        THEN <<[lat |-> ParseNumber(parts[2]), lon |-> ParseNumber(parts[3])]>>
        ELSE <<>>

\* _process_received_line with response_callback None: the calls of
\* gps_callback it makes.
ProcessReceivedLine(line) ==
    LET l == RemoveCR(line)
    IN  IF StartsWith(l, <<"G", "P", "S", ",">>) THEN ProcessGpsData(l) ELSE <<>>

\* The inner while of _receive_loop: what is left of the buffer and the calls
\* of gps_callback made.
RECURSIVE RxDrain(_)
RxDrain(buf) ==
    IF ~HasNewline(buf) THEN [buffer |-> buf, calls |-> <<>>]
    ELSE LET e == LineEnd(buf)
             line == Strip(SubSeq(buf, 1, e - 1))
             r == RxDrain(SubSeq(buf, e + 1, Len(buf)))
         IN  [buffer |-> r.buffer,
              calls |-> (IF line # <<>> THEN ProcessReceivedLine(line) ELSE <<>>) \o r.calls]

\* What send_command returns: None (with the reason, as history) or an
\* STM32Response.
NoResponse(how) ==
    [none |-> TRUE, success |-> FALSE, error_code |-> 0, data_lines |-> <<>>, how |-> how]

Response(success, code, lines) ==
    [none |-> FALSE, success |-> success, error_code |-> code, data_lines |-> lines,
     how |-> "resolved"]

\* One line read by _wait_for_response with collected_lines = coll: whether it
\* returns, what, the new collected_lines and the calls of gps_callback.
WaitLine(line, coll) ==
    IF line = <<>>
    THEN [done |-> FALSE, ret |-> NoResponse("pending"), coll |-> coll, calls |-> <<>>]
    ELSE IF StartsWith(line, <<"G", "P", "S", ",">>)
    THEN [done |-> FALSE, ret |-> NoResponse("pending"), coll |-> coll,
          calls |-> ProcessGpsData(line)]
    ELSE LET c2 == Append(coll, line)
         IN  IF line = OkLine
             THEN [done |-> TRUE, ret |-> Response(TRUE, 0, SubSeq(c2, 1, Len(c2) - 1)),
                   coll |-> c2, calls |-> <<>>]
             ELSE IF StartsWith(line, <<"E", "R", "R">>)
                     /\ IsNumber(SubSeq(line, 4, IF Len(line) < 5 THEN Len(line) ELSE 5))
             THEN [done |-> TRUE,
                   ret |-> Response(FALSE,
                                    ParseNumber(SubSeq(line, 4, IF Len(line) < 5 THEN Len(line) ELSE 5)),
                                    c2),
                   coll |-> c2, calls |-> <<>>]
             ELSE [done |-> FALSE, ret |-> NoResponse("pending"), coll |-> c2, calls |-> <<>>]

WaitExpiredNever(n, start) == FALSE

\* The negation of the while condition of _wait_for_response.
WaitExpired(n, start) == (n - start) >= CmdTimeout

CanAcquireAlways == TRUE

\* with self.command_lock: the lock can be taken.
CanAcquire == command_lock = 0

\* The fixes of a line the device has completed, when it is a well-formed
\* GPS line.
GpsOfLine(l) == IF StartsWith(l, <<"G", "P", "S", ",">>) THEN ProcessGpsData(l) ELSE <<>>

\* Nothing in transit from the microcontroller.
NoDevLine == [line |-> <<>>, rest |-> <<>>]

\* The microcontroller begins a line, one of at most max: all of it, or its
\* first characters, reach the input.
DeviceLine(max) ==
    /\ ser_open
    /\ dev_line.rest = <<>>
    /\ dev_count < max
    /\ \E l \in DevLines : \E k \in {SplitAt, Len(l) + 1} :
          LET full == Append(l, "\n")
          IN  /\ ser_in' = ser_in \o SubSeq(full, 1, k)
              /\ dev_line' = [line |-> l, rest |-> SubSeq(full, k + 1, Len(full))]
              /\ reply' = IF k = Len(full) THEN Append(reply, l) ELSE reply
              /\ gps_sent' = IF k = Len(full) THEN gps_sent \o GpsOfLine(l) ELSE gps_sent
    /\ dev_count' = dev_count + 1
    /\ UNCHANGED <<now, ctxVars, dector_mock, fsmVars, pumpVars, mainVars, navVars, putVars, packVars, auxVars,
                   rx_running, rx_pc, rx_buffer, command_lock, snd_pc, snd_start,
                   collected_lines, snd_ret, wire, gps_cb>>

\* The rest of the line reaches the input.
DeviceRest ==
    /\ ser_open
    /\ dev_line.rest # <<>>
    /\ ser_in' = ser_in \o dev_line.rest
    /\ dev_line' = [dev_line EXCEPT !.rest = <<>>]
    /\ reply' = Append(reply, dev_line.line)
    /\ gps_sent' = gps_sent \o GpsOfLine(dev_line.line)
    /\ UNCHANGED <<now, ctxVars, dector_mock, fsmVars, pumpVars, mainVars, navVars, putVars, packVars, auxVars,
                   dev_count, rx_running, rx_pc, rx_buffer, command_lock, snd_pc, snd_start,
                   collected_lines, snd_ret, wire, gps_cb>>

\* One iteration of _receive_loop: drain the input into the buffer and
\* process every complete line.
ReceiveLoop ==
    /\ rx_pc = "loop"
    /\ IF ~(rx_running /\ ser_open)
       THEN /\ rx_pc' = "done"
            /\ UNCHANGED <<ser_in, rx_buffer, gps_cb>>
       ELSE LET r == RxDrain(rx_buffer \o ser_in)
            IN  /\ ser_in # <<>>
                /\ ser_in' = <<>>
                /\ rx_buffer' = r.buffer
                /\ gps_cb' = gps_cb \o r.calls
                /\ rx_pc' = rx_pc
    /\ UNCHANGED <<now, ctxVars, dector_mock, fsmVars, pumpVars, mainVars, navVars, putVars, packVars, auxVars,
                   dev_line, dev_count, rx_running, command_lock, snd_pc, snd_start,
                   collected_lines, snd_ret, wire, reply, gps_sent>>

\* send_command(command, wait_for_response) is called, before max commands
\* have been written: on a closed link it returns None at once, else it goes
\* for the lock.
SendCall(max) ==
    /\ \E c \in Callers : \E wait \in BOOLEAN :
          /\ snd_pc[c] = "idle"
          /\ wire < max
          /\ IF ~ser_open
             THEN /\ snd_ret' = [snd_ret EXCEPT ![c] = NoResponse("closed")]
                  /\ UNCHANGED snd_pc
             ELSE /\ snd_pc' = [snd_pc EXCEPT ![c] = IF wait THEN "lock_wait" ELSE "lock_nowait"]
                  /\ UNCHANGED snd_ret
    /\ UNCHANGED <<now, ctxVars, dector_mock, fsmVars, pumpVars, mainVars, navVars, putVars, packVars, auxVars,
                   ser_in, dev_line, dev_count, rx_running, rx_pc, rx_buffer, command_lock,
                   snd_start, collected_lines, wire, reply, gps_sent, gps_cb>>

\* with self.command_lock: ser.write, ser.flush; without a response wanted
\* the call returns None and the lock is released. A write to a closed
\* device raises SerialException, which send_command catches.
SendAcquire ==
    /\ \E c \in Callers :
          /\ snd_pc[c] \in {"lock_wait", "lock_nowait"}
          /\ CanAcquire
          /\ IF ~ser_open
             THEN /\ snd_ret' = [snd_ret EXCEPT ![c] = NoResponse("error")]
                  /\ snd_pc' = [snd_pc EXCEPT ![c] = "idle"]
                  /\ UNCHANGED <<command_lock, wire, reply, snd_start, collected_lines>>
             ELSE /\ wire' = wire + 1
                  /\ reply' = <<>>
                  /\ IF snd_pc[c] = "lock_nowait"
                     THEN /\ snd_ret' = [snd_ret EXCEPT ![c] = NoResponse("nowait")]
                          /\ snd_pc' = [snd_pc EXCEPT ![c] = "idle"]
                          /\ UNCHANGED <<command_lock, snd_start, collected_lines>>
                     ELSE /\ command_lock' = c
                          /\ snd_pc' = [snd_pc EXCEPT ![c] = "wait"]
                          /\ snd_start' = [snd_start EXCEPT ![c] = now]
                          /\ collected_lines' = [collected_lines EXCEPT ![c] = <<>>]
                          /\ snd_ret' = [snd_ret EXCEPT ![c] = NoResponse("pending")]
    /\ UNCHANGED <<now, ctxVars, dector_mock, fsmVars, pumpVars, mainVars, navVars, putVars, packVars, auxVars,
                   ser_in, dev_line, dev_count, rx_running, rx_pc, rx_buffer,
                   gps_sent, gps_cb>>

\* One iteration of the loop of _wait_for_response (one that changes
\* something): the timeout, or a readline() of a complete line. Reading
\* ser.in_waiting of a closed device raises SerialException, which
\* send_command catches. Leaving the with block releases the lock.
SendWait ==
    /\ \E c \in Callers :
          /\ snd_pc[c] = "wait"
          /\ IF WaitExpired(now, snd_start[c])
             THEN /\ snd_ret' = [snd_ret EXCEPT ![c] = NoResponse("timeout")]
                  /\ snd_pc' = [snd_pc EXCEPT ![c] = "idle"]
                  /\ command_lock' = 0
                  /\ UNCHANGED <<ser_in, collected_lines, gps_cb>>
             ELSE IF ~ser_open
             THEN /\ snd_ret' = [snd_ret EXCEPT ![c] = NoResponse("error")]
                  /\ snd_pc' = [snd_pc EXCEPT ![c] = "idle"]
                  /\ command_lock' = 0
                  /\ UNCHANGED <<ser_in, collected_lines, gps_cb>>
             ELSE /\ HasNewline(ser_in)
                  /\ LET e == LineEnd(ser_in)
                         w == WaitLine(Strip(SubSeq(ser_in, 1, e - 1)), collected_lines[c])
                     IN  /\ ser_in' = SubSeq(ser_in, e + 1, Len(ser_in))
                         /\ collected_lines' = [collected_lines EXCEPT ![c] = w.coll]
                         /\ gps_cb' = gps_cb \o w.calls
                         /\ IF w.done
                            THEN /\ snd_ret' = [snd_ret EXCEPT ![c] = w.ret]
                                 /\ snd_pc' = [snd_pc EXCEPT ![c] = "idle"]
                                 /\ command_lock' = 0
                            ELSE UNCHANGED <<snd_ret, snd_pc, command_lock>>
    /\ UNCHANGED <<now, ctxVars, dector_mock, fsmVars, pumpVars, mainVars, navVars, putVars, packVars, auxVars,
                   dev_line, dev_count, rx_running, rx_pc, rx_buffer, snd_start, wire,
                   reply, gps_sent>>

\* The owner of the link calls disconnect().
LinkDisconnect ==
    /\ ser_open
    /\ Disconnect
    /\ UNCHANGED <<now, ctxVars, dector_mock, fsmVars, pumpVars, main_pc, join_ts, navVars, putVars, packVars, auxVars,
                   ser_in, dev_line, dev_count, rx_pc, rx_buffer, command_lock, snd_pc,
                   snd_start, collected_lines, snd_ret, wire, reply, gps_sent, gps_cb>>

\* Lines the device can also send: a failure reply with a two-digit code, a
\* failure reply whose suffix is no number, and position lines with a field
\* that is NA or no number.
Err05Line == <<"E", "R", "R", "0", "5">>
ErrBadLine == <<"E", "R", "R", "x", "y">>
GpsNaLatLine == <<"G", "P", "S", ",", "N", "A", ",", "2">>
GpsNaLonLine == <<"G", "P", "S", ",", "1", ",", "N", "A">>
GpsBadLatLine == <<"G", "P", "S", ",", "x", ",", "2">>
GpsBadLonLine == <<"G", "P", "S", ",", "1", ",", "x">>

ErrLines == {DataLine, Err05Line, ErrBadLine}
GpsBadLines == {GpsNaLatLine, GpsNaLonLine, GpsBadLatLine, GpsBadLonLine}
TelemetryLines == {GpsLine} \cup GpsBadLines

\* The device sends a line of the set S, whole or split.
DeviceLineOf(S, max) ==
    /\ ser_open
    /\ dev_line.rest = <<>>
    /\ dev_count < max
    /\ \E l \in S : \E k \in {SplitAt, Len(l) + 1} :
          LET full == Append(l, "\n")
          IN  /\ ser_in' = ser_in \o SubSeq(full, 1, k)
              /\ dev_line' = [line |-> l, rest |-> SubSeq(full, k + 1, Len(full))]
              /\ reply' = IF k = Len(full) THEN Append(reply, l) ELSE reply
              /\ gps_sent' = IF k = Len(full) THEN gps_sent \o GpsOfLine(l) ELSE gps_sent
    /\ dev_count' = dev_count + 1
    /\ UNCHANGED <<now, ctxVars, dector_mock, fsmVars, pumpVars, mainVars, navVars, putVars, packVars, auxVars,
                   rx_running, rx_pc, rx_buffer, command_lock, snd_pc, snd_start,
                   collected_lines, snd_ret, wire, gps_cb>>

-----------------------------------------------------------------------------
(* src/global_ctx.py: put_latest step by step, as its callers' threads
   interleave on ctx.uart_queue: q.full(), q.get_nowait() and q.put_nowait()
   are each atomic, the function is not. *)

MaxPushes == 3

\* The threads that call put_latest(ctx.uart_queue, ...): FSMService._emit_uart
\* and main's finally clause.
Producers == {"fsm", "main"}

\* What a producer pushes: the arbiter a command, main the sentinel.
PushItems(p) ==
    IF p = "fsm"
    THEN {UartItem(c, now, <<>>, "push") : c \in {StopCmd, ViolationCmd}}
    ELSE {NoneItem}

\* put_latest is called; it evaluates q.full().
PutLatestBegin ==
    /\ pl_count < MaxPushes
    /\ \E p \in Producers : \E item \in PushItems(p) :
          /\ pl_pc[p] = "idle"
          /\ pl_item' = [pl_item EXCEPT ![p] = item]
          /\ pl_pc' = [pl_pc EXCEPT ![p] =
                          IF Len(uart_queue) >= QueueMaxsize THEN "evict" ELSE "put"]
          /\ pl_ret' = [pl_ret EXCEPT ![p] = "none"]
          /\ pl_last' = <<item>>
    /\ pl_count' = pl_count + 1
    /\ UNCHANGED <<now, ctxVars, dector_mock, fsmVars, pumpVars, mainVars, navVars, linkVars, packVars, auxVars,
                   emit_hist>>

\* q.get_nowait() of the full branch; queue.Empty is swallowed.
PutLatestEvict ==
    /\ \E p \in Producers :
          /\ pl_pc[p] = "evict"
          /\ uart_queue' = IF uart_queue # <<>> THEN Tail(uart_queue) ELSE uart_queue
          /\ pl_pc' = [pl_pc EXCEPT ![p] = "put"]
    /\ UNCHANGED <<now, ctxAttrs, system_stop_event, dector_queue, patrol_cmd_queue,
                   pack_event, pack_in_progress, pack_jobs, dector_mock, fsmVars, pumpVars,
                   mainVars, navVars, linkVars, pl_item, pl_ret, pl_last, pl_count, packVars, auxVars,
                   emit_hist>>

\* Whether q.put_nowait(item) finds room (else it raises queue.Full).
PutNowaitFits(q) == Len(q) < QueueMaxsize

\* q.put_nowait(item); return True, or False on queue.Full.
PutLatestPut ==
    /\ \E p \in Producers :
          /\ pl_pc[p] = "put"
          /\ IF PutNowaitFits(uart_queue)
             THEN /\ uart_queue' = Append(uart_queue, pl_item[p])
                  /\ pl_ret' = [pl_ret EXCEPT ![p] = "true"]
             ELSE /\ UNCHANGED uart_queue
                  /\ pl_ret' = [pl_ret EXCEPT ![p] = "false"]
          /\ pl_pc' = [pl_pc EXCEPT ![p] = "idle"]
    /\ UNCHANGED <<now, ctxAttrs, system_stop_event, dector_queue, patrol_cmd_queue,
                   pack_event, pack_in_progress, pack_jobs, dector_mock, fsmVars, pumpVars,
                   mainVars, navVars, linkVars, pl_item, pl_last, pl_count, packVars, auxVars,
                   emit_hist>>

\* FSMService._emit_uart calls put_latest(ctx.uart_queue, cmd). The item is
\* stamped with the number of the call, so that what the pump writes tells
\* which call it came from.
EmitUartBegin ==
    /\ pl_count < MaxPushes
    /\ pl_pc["fsm"] = "idle"
    /\ \E c \in {StopCmd, ViolationCmd, ForwardCmd} :
          LET item == UartItem(c, pl_count + 1, <<>>, "push")
          IN  /\ pl_item' = [pl_item EXCEPT !["fsm"] = item]
              /\ pl_last' = <<item>>
              /\ emit_hist' = Append(emit_hist, c)
    /\ pl_pc' = [pl_pc EXCEPT !["fsm"] =
                    IF Len(uart_queue) >= QueueMaxsize THEN "evict" ELSE "put"]
    /\ pl_ret' = [pl_ret EXCEPT !["fsm"] = "none"]
    /\ pl_count' = pl_count + 1
    /\ UNCHANGED <<now, ctxVars, dector_mock, fsmVars, pumpVars, mainVars, navVars,
                   linkVars, packVars, auxVars>>

\* main's finally clause: system_stop_event.set(), then
\* put_latest(ctx.uart_queue, None) is called.
MainSentinelBegin ==
    /\ ~system_stop_event
    /\ system_stop_event' = TRUE
    /\ pl_pc["main"] = "idle"
    /\ pl_item' = [pl_item EXCEPT !["main"] = NoneItem]
    /\ pl_last' = <<NoneItem>>
    /\ pl_pc' = [pl_pc EXCEPT !["main"] =
                    IF Len(uart_queue) >= QueueMaxsize THEN "evict" ELSE "put"]
    /\ pl_ret' = [pl_ret EXCEPT !["main"] = "none"]
    /\ UNCHANGED <<now, ctxAttrs, dector_queue, uart_queue, patrol_cmd_queue, pack_event,
                   pack_in_progress, pack_jobs, dector_mock, fsmVars, pumpVars, mainVars,
                   navVars, linkVars, packVars, auxVars, pl_count, emit_hist>>

-----------------------------------------------------------------------------
(* src/core/fsm.py: the pack block of FSMService.run step by step, as the
   navigator's ctx.pack_event.set() interleaves with it. *)

MaxPackSets == 3

PackFirstSpawn == "spawn"

\* What the block does first once it has seen the signal set:
\* ctx.pack_event.clear(), and only then _start_pack_thread_once.
PackFirst == "clear"

\* if hasattr(ctx, "pack_event") and ctx.pack_event.is_set()
PackTest ==
    /\ pk_pc = "test"
    /\ ~system_stop_event
    /\ "pack_event" \in ctxAttrs /\ pack_event
    /\ pk_pc' = PackFirst
    /\ UNCHANGED <<now, ctxVars, dector_mock, fsmVars, pumpVars, mainVars, navVars,
                   linkVars, putVars, auxVars, pk_tries, pk_rises, pk_owed>>

\* ctx.pack_event.clear()
PackClear ==
    /\ pk_pc = "clear"
    /\ pack_event' = FALSE
    /\ pk_pc' = IF PackFirst = "clear" THEN "spawn" ELSE "test"
    /\ UNCHANGED <<now, ctxAttrs, system_stop_event, dector_queue, uart_queue,
                   patrol_cmd_queue, pack_in_progress, pack_jobs, dector_mock, fsmVars,
                   pumpVars, mainVars, navVars, linkVars, putVars, auxVars, pk_tries, pk_rises,
                   pk_owed>>

\* self._start_pack_thread_once(meta=...)
PackSpawn ==
    /\ pk_pc = "spawn"
    /\ IF StartPackThreadAdmits
       THEN /\ pack_in_progress' = TRUE
            /\ pack_jobs' = pack_jobs + 1
       ELSE UNCHANGED <<pack_in_progress, pack_jobs>>
    /\ pk_tries' = pk_tries + 1
    /\ pk_owed' = FALSE
    /\ pk_pc' = IF PackFirst = "clear" THEN "test" ELSE "clear"
    /\ UNCHANGED <<now, ctxAttrs, system_stop_event, dector_queue, uart_queue,
                   patrol_cmd_queue, pack_event, dector_mock, fsmVars, pumpVars, mainVars,
                   navVars, linkVars, putVars, auxVars, pk_rises>>

\* The navigator's ctx.pack_event.set() on the base edge.
PackSet ==
    /\ "pack_event" \in ctxAttrs
    /\ pk_rises < MaxPackSets
    /\ pack_event' = TRUE
    /\ pk_rises' = IF pack_event THEN pk_rises ELSE pk_rises + 1
    /\ pk_owed' = TRUE
    /\ UNCHANGED <<now, ctxAttrs, system_stop_event, dector_queue, uart_queue,
                   patrol_cmd_queue, pack_in_progress, pack_jobs, dector_mock, fsmVars,
                   pumpVars, mainVars, navVars, linkVars, putVars, auxVars, pk_pc, pk_tries>>

-----------------------------------------------------------------------------
(* src/global_ctx.py and src/services/gps_service.py: the shared fix step by
   step. set_gps writes its fields one after the other while it holds
   ctx._gps_lock; _check_stale_and_mark_invalid takes a copy, decides on the
   copy, and marks the fix invalid in a second critical section. *)

MaxFixWrites == 2
HorizonGps == 6

\* What the configuration can hold for gps.stale_timeout_s, and what
\* GPSService.__init__ makes of it.
StaleConfigs == {0 - StaleTimeoutS, 0, StaleTimeoutS}
StaleTimeoutOf(cfg) == IF cfg < 0 THEN 0 ELSE cfg

\* The positions the receiver reports here.
FixPoints == {Pt(0, 0), Pt(7, 0)}

\* A variant of the lock that excludes nobody.
GpsLockFreeAlways == TRUE

\* with _gps_lock: can be entered.
GpsLockFree == ~gps_lock

\* _on_gps calls ctx.set_gps: the lock is taken, ok, lat and lon are written.
SetGpsBegin ==
    /\ GpsLockFree
    /\ Cardinality(gps_written) < MaxFixWrites
    /\ \E p \in FixPoints : gps_state' = [gps_state EXCEPT !.ok = TRUE, !.fix = <<p>>]
    /\ gps_lock' = TRUE
    /\ UNCHANGED <<now, ctxVars, dector_mock, fsmVars, pumpVars, mainVars, nav_pc,
                   nav_loop, idx, nav_state, last_pos, heading_deg, last_at_base,
                   has_departed_base, nav_out, nav_prev, nav_moved, gps_pc, gps_bound,
                   linkVars, putVars, packVars, goVars, wrapVars, supVars,
                   stale_timeout_s, mon_pc, mon_gs, gps_snap, gps_written>>

\* set_gps writes ts = time.time() and leaves the with block.
SetGpsEnd ==
    /\ gps_lock
    /\ gps_state' = [gps_state EXCEPT !.ts = now]
    /\ gps_written' = gps_written \cup {[fix |-> gps_state.fix, ts |-> now]}
    /\ gps_lock' = FALSE
    /\ UNCHANGED <<now, ctxVars, dector_mock, fsmVars, pumpVars, mainVars, nav_pc,
                   nav_loop, idx, nav_state, last_pos, heading_deg, last_at_base,
                   has_departed_base, nav_out, nav_prev, nav_moved, gps_pc, gps_bound,
                   linkVars, putVars, packVars, goVars, wrapVars, supVars,
                   stale_timeout_s, mon_pc, mon_gs, gps_snap>>

\* _check_stale_and_mark_invalid up to its decision: nothing with a
\* threshold of 0 or less; else gs = ctx.get_gps_copy(), and the fix is to be
\* marked when gs is ok and older than the threshold.
MonitorCheck ==
    /\ mon_pc = "check"
    /\ MonitorLoopRuns
    /\ IF stale_timeout_s <= 0
       THEN UNCHANGED <<mon_gs, mon_pc>>
       ELSE /\ GpsLockFree
            /\ mon_gs' = gps_state
            /\ mon_pc' = IF gps_state.ok /\ (now - gps_state.ts) > stale_timeout_s
                         THEN "mark" ELSE "check"
    /\ UNCHANGED <<now, ctxVars, dector_mock, fsmVars, pumpVars, mainVars, navVars,
                   linkVars, putVars, packVars, goVars, wrapVars, supVars,
                   stale_timeout_s, gps_lock, gps_snap, gps_written>>

\* ctx.set_gps_invalid(): under the lock, ok = False and ts = time.time().
MonitorMark ==
    /\ mon_pc = "mark"
    /\ GpsLockFree
    /\ gps_state' = [gps_state EXCEPT !.ok = FALSE, !.ts = now]
    /\ mon_pc' = "check"
    /\ UNCHANGED <<now, ctxVars, dector_mock, fsmVars, pumpVars, mainVars, nav_pc,
                   nav_loop, idx, nav_state, last_pos, heading_deg, last_at_base,
                   has_departed_base, nav_out, nav_prev, nav_moved, gps_pc, gps_bound,
                   linkVars, putVars, packVars, goVars, wrapVars, supVars,
                   stale_timeout_s, mon_gs, gps_lock, gps_snap, gps_written>>

\* A reader (PatrolService._get_gps, the detector's upload) calls
\* ctx.get_gps_copy().
GpsSnapshot ==
    /\ GpsLockFree
    /\ gps_snap' = gps_state
    /\ UNCHANGED <<now, ctxVars, dector_mock, fsmVars, pumpVars, mainVars, navVars,
                   linkVars, putVars, packVars, goVars, wrapVars, supVars,
                   stale_timeout_s, mon_pc, mon_gs, gps_lock, gps_written>>

-----------------------------------------------------------------------------
(* src/core/patrol_logic.py: _wrap180 as a function of its argument. *)

MaxAngle == 360

\* The differences brng_tgt - heading of two bearings of [0, 360), and the
\* ends of that range.
Angles == (0 - MaxAngle)..MaxAngle

\* delta = _wrap180(d)
WrapCall ==
    /\ w_out = <<>>
    /\ w_out' = <<Wrap180(w_in)>>
    /\ UNCHANGED <<now, ctxVars, dector_mock, fsmVars, pumpVars, mainVars, navVars,
                   linkVars, putVars, packVars, goVars, w_in, gpsVars, supVars>>

-----------------------------------------------------------------------------
(* src/main.py: the supervision loop of main, and the ways a service thread
   ends without the stop flag. *)

\* A variant of the supervision test that does not look at the detector.
RequiredServiceDeadNoDector ==
    \/ uart_required /\ ~ser_open
    \/ fsm_pc \in {"crashed", "done"}
    \/ gps_pc \in {"dead", "done"}

\* What the loop tests before each sleep(1): the link when it is required,
\* dector_thread.is_alive(), fsm_thread.is_alive() and gps_thread.is_alive().
RequiredServiceDead ==
    \/ uart_required /\ ~ser_open
    \/ dector_pc \in {"dead", "done"}
    \/ fsm_pc \in {"crashed", "done"}
    \/ gps_pc \in {"dead", "done"}

\* An iteration of the loop that finds a required service dead: break, and
\* the finally clause sets the stop flag. (An iteration that finds none
\* sleeps and changes nothing.)
MainSupervise ==
    /\ main_pc = "running"
    /\ RequiredServiceDead
    /\ system_stop_event' = TRUE
    /\ main_pc' = "sentinel"
    /\ UNCHANGED <<now, ctxAttrs, dector_queue, uart_queue, patrol_cmd_queue, pack_event,
                   pack_in_progress, pack_jobs, dector_mock, fsmVars, pumpVars,
                   join_ts, ser_open, navVars, linkVars, putVars, packVars, auxVars>>

\* An exception that DECTOR_ser.run does not catch ends the detector thread.
DectorDies ==
    /\ dector_pc = "run"
    /\ dector_pc' = "dead"
    /\ UNCHANGED <<now, ctxVars, dector_mock, fsmVars, pumpVars, mainVars, navVars,
                   linkVars, putVars, packVars, goVars, wrapVars, gpsVars, uart_required>>

\* The loop of DECTOR_ser.run ends when the stop flag is set.
DectorExit ==
    /\ dector_pc = "run"
    /\ system_stop_event
    /\ dector_pc' = "done"
    /\ UNCHANGED <<now, ctxVars, dector_mock, fsmVars, pumpVars, mainVars, navVars,
                   linkVars, putVars, packVars, goVars, wrapVars, gpsVars, uart_required>>

\* An exception that FSMService.run does not catch ends the arbiter thread.
FsmDies ==
    /\ fsm_pc \in {"check", "body"}
    /\ fsm_pc' = "crashed"
    /\ UNCHANGED <<now, ctxVars, dector_mock, pumpVars, mainVars, navVars, linkVars,
                   putVars, packVars, auxVars, last_violation_ts, last_sent_cmd,
                   last_sent_ts, patrol_cached_cmd, patrol_cached_ts, fsm_out>>

\* An exception that GPSService.run does not catch ends the GPS thread.
GpsDies ==
    /\ gps_pc \in {"bind", "monitor"}
    /\ gps_pc' = "dead"
    /\ UNCHANGED <<now, ctxVars, dector_mock, fsmVars, pumpVars, mainVars, gps_state,
                   nav_pc, nav_loop, idx, nav_state, last_pos, heading_deg, last_at_base,
                   has_departed_base, nav_out, nav_prev, nav_moved, gps_bound,
                   linkVars, putVars, packVars, auxVars>>

-----------------------------------------------------------------------------
(* Specifications *)

InitBase ==
    /\ now = Epoch
    /\ system_stop_event = FALSE
    /\ dector_queue = <<>>
    /\ uart_queue = <<>>
    /\ patrol_cmd_queue = <<>>
    /\ pack_event = FALSE
    /\ pack_in_progress = FALSE
    /\ pack_jobs = 0
    /\ fsm_pc = "check"
    /\ last_violation_ts = 0
    /\ last_sent_cmd = <<>>
    /\ last_sent_ts = 0
    /\ patrol_cached_cmd = <<>>
    /\ patrol_cached_ts = 0
    /\ pump_pc = "loop"
    /\ pump_item = NoneItem
    /\ pump_last_cmd = <<>>
    /\ pump_last_ts = 0
    /\ main_pc = "running"
    /\ join_ts = 0
    /\ ser_open = TRUE
    /\ fsm_out = [cmd |-> <<>>, reason |-> "none", evq |-> <<>>, hold |-> FALSE,
                  held |-> FALSE, cached |-> FALSE, stale |-> FALSE, queued |-> FALSE,
                  prev |-> <<>>, put_gap |-> -1, trigger |-> FALSE, busy |-> FALSE,
                  packed |-> FALSE]
    /\ gps_state = [ok |-> FALSE, fix |-> <<>>, ts |-> 0]
    /\ nav_pc = "run"
    /\ gps_pc = "bind"
    /\ gps_bound = FALSE
    /\ idx = 0
    /\ nav_state = "TURN"
    /\ last_pos = <<>>
    /\ heading_deg = <<>>
    /\ last_at_base = FALSE
    /\ has_departed_base = FALSE
    /\ nav_out = NoNavOut
    /\ nav_prev = "none"
    /\ nav_moved = FALSE
    /\ tx_log = [c \in Commands |-> 0]
    /\ tx_last = [cmd |-> <<>>, prev |-> <<>>, reason |-> "none", gap |-> -1]
    /\ ser_in = <<>>
    /\ dev_line = NoDevLine
    /\ dev_count = 0
    /\ rx_running = TRUE
    /\ rx_pc = "loop"
    /\ rx_buffer = <<>>
    /\ command_lock = 0
    /\ snd_pc = [c \in Callers |-> "idle"]
    /\ snd_start = [c \in Callers |-> 0]
    /\ collected_lines = [c \in Callers |-> <<>>]
    /\ snd_ret = [c \in Callers |-> NoResponse("never")]
    /\ wire = 0
    /\ reply = <<>>
    /\ gps_sent = <<>>
    /\ gps_cb = <<>>
    /\ pl_pc = [p \in Producers |-> "idle"]
    /\ pl_item = [p \in Producers |-> NoneItem]
    /\ pl_ret = [p \in Producers |-> "none"]
    /\ pl_last = <<>>
    /\ pl_count = 0
    /\ emit_hist = <<>>
    /\ pk_pc = "test"
    /\ pk_tries = 0
    /\ pk_rises = 0
    /\ pk_owed = FALSE
    /\ go_delta = 0
    /\ mon_pc = "check"
    /\ mon_gs = [ok |-> FALSE, fix |-> <<>>, ts |-> 0]
    /\ gps_lock = FALSE
    /\ gps_snap = [ok |-> FALSE, fix |-> <<>>, ts |-> 0]
    /\ gps_written = {}
    /\ dector_pc = "run"

\* The state after construction.
InitCommon ==
    /\ InitBase
    /\ w_in = 0
    /\ w_out = <<>>
    /\ stale_timeout_s = StaleTimeoutS
    /\ uart_required = FALSE

\* The program as src/ has it: the arbiter, the pump, the detector and the
\* supervisor, with ctx binding what global_ctx.py binds.
Init ==
    /\ InitCommon
    /\ ctxAttrs = CtxDeclared
    /\ dector_mock \in BOOLEAN
    /\ nav_loop = TRUE

Next ==
    \/ ClockTick(Horizon, 1)
    \/ DectorPush
    \/ DectorFake
    \/ FsmCheck
    \/ FsmBody
    \/ PumpLoop
    \/ PumpGet
    \/ PumpHandle

Spec == Init /\ [][Next]_vars

\* The same program through its shutdown.
NextShutdown ==
    \/ ClockTick(HorizonShutdown, 1)
    \/ DectorPush
    \/ DectorFake
    \/ FsmCheck
    \/ FsmBody
    \/ FsmFinal
    \/ PumpLoop
    \/ PumpGet
    \/ PumpHandle
    \/ MainStop
    \/ MainSentinel
    \/ MainJoinPump
    \/ MainDisconnect
    \/ MainJoinFsm

SpecShutdown == Init /\ [][NextShutdown]_vars

\* The arbiter with ctx binding the queue and the pack signal as well.
InitCtx ==
    /\ InitCommon
    /\ ctxAttrs = CtxDeclared \cup CtxUndeclared
    /\ dector_mock \in BOOLEAN
    /\ nav_loop = TRUE

NextCtx ==
    \/ ClockTick(HorizonCtx, ClockStepCtx)
    \/ DectorPush
    \/ DectorFake
    \/ PatrolSuggest
    \/ FsmCheck
    \/ FsmBody

SpecCtx == InitCtx /\ [][NextCtx]_vars

\* The arbiter's pack step and the archival jobs.
NextPack ==
    \/ ClockTick(HorizonPack, 1)
    \/ DectorPush
    \/ DectorFake
    \/ PackRequest
    \/ FsmCheck
    \/ FsmBody
    \/ PackJobDone

SpecPack == InitCtx /\ [][NextPack]_vars

\* The same with archival jobs that end: build_zip_for_data writes one
\* archive of a directory and returns or raises.
SpecPackFair == InitCtx /\ [][NextPack]_vars /\ WF_vars(PackJobDone)

\* The navigator and the GPS fix, with ctx as global_ctx.py binds it.
NextNav ==
    \/ ClockTick(HorizonNav, 1)
    \/ GpsFix
    \/ GpsInvalid
    \/ NavStep

\* cfg "loop" is either.
InitNav ==
    /\ InitCommon
    /\ ctxAttrs = CtxDeclared
    /\ dector_mock = FALSE
    /\ nav_loop \in BOOLEAN

SpecNav == InitNav /\ [][NextNav]_vars

\* The same with ctx binding the queue and the pack signal as well.
InitNavCtx ==
    /\ InitCommon
    /\ ctxAttrs = CtxDeclared \cup CtxUndeclared
    /\ dector_mock = FALSE
    /\ nav_loop \in BOOLEAN

SpecNavCtx == InitNavCtx /\ [][NextNav]_vars

\* The serial link with its callers, the receive loop and the device.
NextLink ==
    \/ ClockTick(HorizonLink, ClockStepLink)
    \/ DeviceLine(MaxDevLines)
    \/ DeviceRest
    \/ ReceiveLoop
    \/ SendCall(MaxWrites)
    \/ SendAcquire
    \/ SendWait
    \/ LinkDisconnect

\* connect() has succeeded: the device is open and _receive_loop runs.
InitLink ==
    /\ InitCommon
    /\ ctxAttrs = CtxDeclared
    /\ dector_mock = FALSE
    /\ nav_loop = TRUE

SpecLink == InitLink /\ [][NextLink]_vars

\* The link with a device that answers with data and failure lines.
MaxErrLines == 2
NextLinkErr ==
    \/ ClockTick(HorizonLink, ClockStepLink)
    \/ DeviceLineOf(ErrLines, MaxErrLines)
    \/ DeviceRest
    \/ ReceiveLoop
    \/ SendCall(MaxWrites)
    \/ SendAcquire
    \/ SendWait
    \/ LinkDisconnect

SpecLinkErr == InitLink /\ [][NextLinkErr]_vars

\* The receive thread alone with a device that sends position lines, good
\* and bad: no caller waits for a response.
MaxGpsLines == 3
NextLinkGps ==
    \/ DeviceLineOf(TelemetryLines, MaxGpsLines)
    \/ DeviceRest
    \/ ReceiveLoop
    \/ LinkDisconnect

SpecLinkGps == InitLink /\ [][NextLinkGps]_vars

\* The writers and readers of the shared fix, for each threshold the
\* configuration can give.
NextGps ==
    \/ ClockTick(HorizonGps, 1)
    \/ SetGpsBegin
    \/ SetGpsEnd
    \/ MonitorCheck
    \/ MonitorMark
    \/ GpsSnapshot

InitGps ==
    /\ InitBase
    /\ ctxAttrs = CtxDeclared
    /\ dector_mock = FALSE
    /\ nav_loop = TRUE
    /\ w_in = 0
    /\ w_out = <<>>
    /\ \E cfg \in StaleConfigs : stale_timeout_s = StaleTimeoutOf(cfg)
    /\ uart_required = FALSE

SpecGps == InitGps /\ [][NextGps]_vars

\* The supervisor and the threads it watches, with the serial pump, which
\* it does not watch, and no interrupt from the keyboard. Time stands
\* still, so each join returns when the thread it waits for has ended.
NextSupervise ==
    \/ DectorDies
    \/ DectorExit
    \/ FsmDies
    \/ GpsDies
    \/ LinkDisconnect
    \/ GpsRunBind
    \/ GpsRunMonitor
    \/ FsmCheck
    \/ FsmBody
    \/ FsmFinal
    \/ PumpLoop
    \/ PumpGet
    \/ PumpHandle
    \/ MainSupervise
    \/ MainSentinel
    \/ MainJoinPump
    \/ MainDisconnect
    \/ MainJoinFsm

\* Every thread that can take a step is scheduled; the failures are not
\* forced.
FairSupervise ==
    /\ WF_vars(MainSupervise) /\ WF_vars(MainSentinel) /\ WF_vars(MainJoinPump)
    /\ WF_vars(MainDisconnect) /\ WF_vars(MainJoinFsm)
    /\ WF_vars(FsmCheck) /\ WF_vars(FsmBody) /\ WF_vars(FsmFinal)
    /\ WF_vars(PumpLoop) /\ WF_vars(PumpGet) /\ WF_vars(PumpHandle)
    /\ WF_vars(DectorExit)
    /\ WF_vars(GpsRunBind) /\ WF_vars(GpsRunMonitor)

InitSup ==
    /\ InitBase
    /\ ctxAttrs = CtxDeclared
    /\ dector_mock = FALSE
    /\ nav_loop = TRUE
    /\ w_in = 0
    /\ w_out = <<>>
    /\ stale_timeout_s = StaleTimeoutS
    /\ uart_required \in BOOLEAN

SpecSupervise == InitSup /\ [][NextSupervise]_vars /\ FairSupervise

\* The arbiter and the pump with a detector and a navigator that suggests
\* one rotation, over a time longer than hold_after_lost_s.
HorizonRot == 5
ClockStepRot == 5
NextRotate ==
    \/ ClockTick(HorizonRot, ClockStepRot)
    \/ DectorPush
    \/ DectorFake
    \/ PatrolSuggestOnce
    \/ FsmCheck
    \/ FsmBody
    \/ PumpLoop
    \/ PumpGet
    \/ PumpHandle

SpecRotate == InitCtx /\ [][NextRotate]_vars

\* The arbiter's emissions, main's sentinel and the pump on ctx.uart_queue,
\* with put_latest step by step.
NextOrder ==
    \/ EmitUartBegin
    \/ MainSentinelBegin
    \/ PutLatestEvict
    \/ PutLatestPut
    \/ PumpLoop
    \/ PumpGet
    \/ PumpHandle

SpecOrder == InitLink /\ [][NextOrder]_vars

\* The receiver falls silent: the GPS service, the navigator and the arbiter
\* go on, with ctx binding the suggestion queue. Each loop sleeps a fraction
\* of a second between iterations and so is scheduled again and again.
HorizonLoss == 20
ClockStepLoss == 5

NextLoss ==
    \/ ClockTick(HorizonLoss, ClockStepLoss)
    \/ GpsFixEarly
    \/ GpsRunBind
    \/ GpsRunMonitor
    \/ NavStep
    \/ FsmCheck
    \/ FsmBody

FairLoss ==
    /\ WF_vars(GpsRunMonitor)
    /\ WF_vars(NavStep)
    /\ WF_vars(FsmCheck) /\ WF_vars(FsmBody)

InitLoss ==
    /\ InitCommon
    /\ ctxAttrs = CtxDeclared \cup CtxUndeclared
    /\ dector_mock = FALSE
    /\ nav_loop = TRUE

SpecLoss == InitLoss /\ [][NextLoss]_vars /\ FairLoss

\* The same with a device that sends less, for the claims about the lock and
\* the timeout.
NextLinkLock ==
    \/ ClockTick(HorizonLink, ClockStepLink)
    \/ DeviceLine(MaxDevLinesLock)
    \/ DeviceRest
    \/ ReceiveLoop
    \/ SendCall(MaxWrites)
    \/ SendAcquire
    \/ SendWait
    \/ LinkDisconnect

SpecLinkLock == InitLink /\ [][NextLinkLock]_vars

\* The producers of ctx.uart_queue and its consumer, the pump.
NextQueue ==
    \/ PutLatestBegin
    \/ PutLatestEvict
    \/ PutLatestPut
    \/ PumpLoop
    \/ PumpGet
    \/ PumpHandle

SpecQueue == InitLink /\ [][NextQueue]_vars

\* The four loops and main through the shutdown. Each thread is scheduled
\* again and again: its sleeps and the pump's queue.get(timeout=0.2) end.
NextStop ==
    \/ ClockTick(HorizonStop, ClockStepStop)
    \/ GpsFixIn(StopFixes)
    \/ GpsRunBind
    \/ GpsRunMonitor
    \/ NavStep
    \/ NavExit
    \/ FsmCheck
    \/ FsmBody
    \/ FsmFinal
    \/ PumpLoop
    \/ PumpGet
    \/ PumpHandle
    \/ MainStop
    \/ MainSentinel
    \/ MainJoinPump
    \/ MainDisconnect
    \/ MainJoinFsm

FairStop ==
    /\ WF_vars(FsmCheck) /\ WF_vars(FsmBody) /\ WF_vars(FsmFinal)
    /\ WF_vars(PumpLoop) /\ WF_vars(PumpGet) /\ WF_vars(PumpHandle)
    /\ WF_vars(NavStep) /\ WF_vars(NavExit)
    /\ WF_vars(GpsRunBind) /\ WF_vars(GpsRunMonitor)

SpecStop == InitLink /\ [][NextStop]_vars /\ FairStop

\* The pack block of the running arbiter, the navigator's requests and the
\* archival jobs. The arbiter's loop sleeps 0.02 s between iterations.
NextPackStep ==
    \/ ClockTick(HorizonPack, 1)
    \/ PackSet
    \/ PackTest
    \/ PackClear
    \/ PackSpawn
    \/ PackJobDone

SpecPackStep ==
    /\ InitCtx
    /\ [][NextPackStep]_vars
    /\ WF_vars(PackTest) /\ WF_vars(PackClear) /\ WF_vars(PackSpawn)

\* The navigator with the sleep of its GO block, during which the receiver
\* goes on reporting.
NextNavGo ==
    \/ ClockTick(HorizonNav, 1)
    \/ GpsFix
    \/ GpsInvalid
    \/ NavStep
    \/ NavGoBegin
    \/ NavGoEnd

SpecNavGo == InitNav /\ [][NextNavGo]_vars

\* The positions reported along the route: the base, midway, the far
\* waypoint.
RouteFixes == {Pt(0, 0), Pt(7, 0), Pt(14, 0)}

\* The navigator along its route, its thread scheduled again and again: its
\* sleeps end.
NextNavRoute ==
    \/ ClockTick(HorizonNav, 1)
    \/ GpsFixIn(RouteFixes)
    \/ GpsInvalid
    \/ NavStep

SpecNavFair == InitNavCtx /\ [][NextNavRoute]_vars /\ WF_vars(NavStep)

\* _wrap180 over its arguments.
InitWrap ==
    /\ InitBase
    /\ ctxAttrs = CtxDeclared
    /\ dector_mock = FALSE
    /\ nav_loop = TRUE
    /\ w_in \in Angles
    /\ w_out = <<>>
    /\ stale_timeout_s = StaleTimeoutS
    /\ uart_required = FALSE

NextWrap ==
    \/ WrapCall

SpecWrap == InitWrap /\ [][NextWrap]_vars

-----------------------------------------------------------------------------
(* Properties *)

\* fsm_out describes an iteration of the loop (not the initial state, not
\* the final emit).
Ticked == fsm_out.reason \in {"violation_override", "patrol", "idle_stop"}

\* C1. Priority: at every tick where a violation was observed within
\* hold_after_lost_s, the command decided and passed to _emit_uart is
\* violation_cmd, and it is what the tick queues if it queues anything,
\* whether or not a fresh suggestion is cached.
C1_PriorityInvariant ==
    (Ticked /\ fsm_out.hold) =>
        /\ fsm_out.cmd = ViolationCmd
        /\ fsm_out.reason = "violation_override"
        /\ fsm_out.queued => last_sent_cmd = ViolationCmd

C1_Witness ==
    /\ Ticked /\ fsm_out.hold
    /\ fsm_out.cached /\ ~fsm_out.stale
    /\ fsm_out.cmd = ViolationCmd

\* C2. Staleness: a tick selects the patrol suggestion only when one is
\* cached and its timestamp is no older than patrol_stale_s.
C2_StalenessInvariant ==
    (Ticked /\ fsm_out.reason = "patrol") =>
        /\ fsm_out.cached
        /\ ~fsm_out.stale
        /\ fsm_out.cmd = patrol_cached_cmd

C2_Witness ==
    /\ Ticked /\ fsm_out.cached /\ fsm_out.stale /\ ~fsm_out.hold
    /\ fsm_out.reason = "idle_stop"

\* C3 as claimed. Any two emissions of a non-stop command less than
\* cmd_dedup_s apart lead to at most one transmission: no non-stop command
\* is written to the serial device from two emissions closer than
\* cmd_dedup_s.
C3_DedupAnyTwo ==
    (tx_last.cmd # <<>> /\ tx_last.cmd # StopCmd) =>
        (tx_last.gap = -1 \/ tx_last.gap >= CmdDedupS)

\* C3 as amended. Two emissions of a non-stop command less than cmd_dedup_s
\* apart, with no other command sent by the arbiter between them, lead to
\* at most one queue placement and at most one transmission.
C3_DedupConsecutive ==
    /\ (fsm_out.queued /\ fsm_out.cmd # StopCmd /\ fsm_out.prev = fsm_out.cmd) =>
           (fsm_out.put_gap >= CmdDedupS)
    /\ (tx_last.cmd # <<>> /\ tx_last.cmd # StopCmd /\ tx_last.prev = tx_last.cmd) =>
           (tx_last.gap = -1 \/ tx_last.gap >= CmdDedupS)

C3_Witness ==
    /\ Ticked /\ fsm_out.cmd = ViolationCmd /\ ~fsm_out.queued
    /\ fsm_out.prev = ViolationCmd
    /\ tx_last.cmd = ViolationCmd

\* C4. The decided command is violation_cmd, the cached patrol command or
\* the stop command, and it is the stop command exactly when no violation
\* is within hold_after_lost_s and no non-empty suggestion no older than
\* patrol_stale_s is cached.
C4_StrictPriorityTotal ==
    Ticked =>
        /\ fsm_out.cmd \in {ViolationCmd, patrol_cached_cmd, StopCmd}
        /\ (fsm_out.cmd = StopCmd) <=>
               (~fsm_out.hold /\ ~(fsm_out.cached /\ ~fsm_out.stale))
        /\ (fsm_out.reason = "idle_stop") <=> (fsm_out.cmd = StopCmd)

C4_Witness ==
    /\ Ticked /\ ~fsm_out.hold /\ fsm_out.cached /\ ~fsm_out.stale
    /\ fsm_out.cmd = RotateRCmd /\ fsm_out.reason = "patrol"

\* What an iteration is about to drain is no violation event.
NoViolationInSlot ==
    dector_queue = <<>> \/ EventType(dector_queue[1]) # "violation"

\* C5. An iteration that drains a detection event, an event without a type
\* or an empty slot leaves _last_violation_ts as it was, and selects
\* violation_cmd only if an earlier violation is still within the hold.
C5_OnlyViolationGrantsPriority ==
    [][(fsm_pc = "body" /\ fsm_pc' # "body" /\ NoViolationInSlot) =>
          /\ last_violation_ts' = last_violation_ts
          /\ fsm_out'.reason = "violation_override" =>
                 (now - last_violation_ts) <= HoldAfterLostS]_vars

C5_Witness ==
    /\ Ticked /\ fsm_out.evq # <<>>
    /\ EventType(fsm_out.evq[1]) # "violation"
    /\ fsm_out.reason = "idle_stop"
    /\ last_violation_ts = 0

\* C6. When the arbiter's thread has exited after a controlled shutdown, its
\* last act was to queue the stop command.
C6_FinalStopQueued ==
    fsm_pc = "done" => (fsm_out.reason = "shutdown_stop" /\ fsm_out.queued)

\* C7. When the supervisor has closed the serial device, the last command
\* written to it was the arbiter's final stop.
C7_FinalStopBeforeClose ==
    ~ser_open => tx_last.reason = "shutdown_stop"

\* C8. At most one archival job runs; a job starts only on a pending trigger
\* with no job in progress; a trigger consumed while a job is in progress
\* starts none and is cleared.
C8_SingleFlight ==
    [][/\ pack_jobs' <= 1
       /\ pack_jobs' > pack_jobs =>
              (fsm_pc = "body" /\ pack_event /\ ~pack_in_progress /\ pack_jobs = 0)
       /\ (fsm_pc = "body" /\ fsm_pc' # "body" /\ pack_event /\ pack_in_progress) =>
              (pack_jobs' = pack_jobs /\ pack_event' = FALSE)]_vars

C8_Witness ==
    /\ Ticked /\ fsm_out.trigger /\ fsm_out.busy /\ ~fsm_out.packed
    /\ pack_jobs = 1 /\ ~pack_event

\* C9. On every valid observation the navigator fires the pack request
\* exactly when the observation is inside the base radius and the previous
\* observation was outside it; a fired request sets the pack signal.
C9_BaseEdgeTrigger ==
    nav_out.obs =>
        /\ nav_out.fired <=> nav_out.edge
        /\ nav_out.edge => pack_event

\* The fix the navigator is about to process is closer than
\* heading_update_min_move_m to the last accepted point.
JitterFix ==
    /\ nav_pc = "run" /\ gps_state.ok /\ gps_state.fix # <<>> /\ last_pos # <<>>
    /\ HaversineSq(last_pos[1], gps_state.fix[1])
         < HeadingUpdateMinMoveM * HeadingUpdateMinMoveM

\* C10. Processing a fix closer than heading_update_min_move_m to the last
\* accepted point changes neither the heading nor the accepted point, and the
\* heading is undefined exactly until a fix has been at least that far from
\* the accepted point.
C10_HeadingJitter ==
    /\ [](heading_deg = <<>> <=> ~nav_moved)
    /\ [][JitterFix => (heading_deg' = heading_deg /\ last_pos' = last_pos)]_vars

C10_Witness ==
    /\ nav_out.obs /\ nav_out.jitter
    /\ heading_deg # <<>>
    /\ Pt(last_pos[1].lon, last_pos[1].lat) # gps_state.fix[1]

\* The navigator is about to process a valid fix within arrive_radius_m of
\* its current target.
ArrivalFix ==
    /\ nav_pc = "run" /\ ~system_stop_event
    /\ gps_state.ok /\ gps_state.fix # <<>>
    /\ idx < Len(Waypoints)
    /\ WithinArriveRadius(gps_state.fix[1], Waypoints[idx + 1])

\* C11. An iteration on a valid fix within arrive_radius_m of the target
\* advances idx by one (to 0 past the end when looping, to the list length
\* otherwise), sets state TURN and suggests nothing; and whenever the loop
\* passes its finished test, idx is within 0..len(waypoints)-1.
C11_ArrivalSequencing ==
    /\ [](idx \in 0..Len(Waypoints))
    /\ []((nav_loop \/ idx < Len(Waypoints)) => idx \in 0..(Len(Waypoints) - 1))
    /\ [][(ArrivalFix /\ now' = now /\ gps_state' = gps_state) =>
             /\ idx' = IF idx + 1 < Len(Waypoints) THEN idx + 1
                       ELSE IF nav_loop THEN 0 ELSE Len(Waypoints)
             /\ nav_state' = "TURN"
             /\ nav_out'.arrived /\ nav_out'.emit = <<>>
             /\ patrol_cmd_queue' = patrol_cmd_queue]_vars

C11_Witness ==
    /\ nav_out.obs /\ nav_out.arrived /\ nav_out.emit = <<>>
    /\ heading_deg # <<>>
    /\ ~nav_loop /\ idx = Len(Waypoints) /\ nav_state = "TURN"

\* The lines the device has sent, all after the one command written, are
\* intermediate lines followed by OK.
ReplyIsDataThenOk ==
    /\ wire = 1 /\ dev_count = Len(reply) /\ reply # <<>>
    /\ reply[Len(reply)] = OkLine
    /\ \A i \in 1..(Len(reply) - 1) : reply[i] = DataLine

\* C12. When the device replies to the command sent with intermediate lines
\* followed by OK and send_command returns a response, the response has
\* success = true and data_lines equal to exactly the intermediate lines, in
\* order, whatever the receive loop does meanwhile.
C12_ResponseCorrelation ==
    \A c \in Callers :
        (ReplyIsDataThenOk /\ snd_ret[c].how = "resolved") =>
            snd_ret[c] = Response(TRUE, 0, SubSeq(reply, 1, Len(reply) - 1))

\* C13. An iteration of the wait loop that finds the timeout passed returns
\* None, writes nothing again, releases the lock and leaves the device open.
C13_Timeout ==
    [][\A c \in Callers :
          (snd_pc[c] = "wait" /\ (now - snd_start[c]) >= CmdTimeout /\ snd_pc'[c] # "wait") =>
              /\ snd_ret'[c].none /\ snd_ret'[c].how = "timeout"
              /\ snd_pc'[c] = "idle"
              /\ command_lock' = 0
              /\ wire' = wire
              /\ ser_open' = ser_open]_vars

\* After a timed-out request, a later request was written and resolved.
C13_Witness ==
    \E c, d \in Callers :
        /\ snd_ret[c].how = "timeout"
        /\ snd_ret[d].how = "resolved" /\ snd_ret[d].success
        /\ snd_start[d] >= snd_start[c] + CmdTimeout
        /\ wire = 2 /\ command_lock = 0 /\ ser_open

\* C14. At most one caller is between its write and its return; it is the
\* holder of command_lock; and no command is written while a caller waits.
C14_OneInFlight ==
    /\ [](Cardinality({c \in Callers : snd_pc[c] = "wait"}) <= 1)
    /\ [](\A c \in Callers : (snd_pc[c] = "wait") <=> (command_lock = c))
    /\ [][wire' # wire => \A c \in Callers : snd_pc[c] # "wait"]_vars

C14_Witness ==
    \E c, d \in Callers :
        /\ snd_pc[c] = "wait" /\ command_lock = c
        /\ snd_pc[d] \in {"lock_wait", "lock_nowait"}

\* A line is the end of a GPS line.
IsGpsFragment(line) ==
    \E i \in 1..Len(GpsLine) : line = SubSeq(GpsLine, i, Len(GpsLine))

\* C15. Once everything the device has sent has been read and processed,
\* every well-formed GPS line it sent has been delivered to the GPS callback,
\* in order; and no caller has collected a GPS line, or a part of one, as a
\* response line.
C15_GpsNeverBlocked ==
    /\ (ser_open /\ rx_pc = "loop" /\ ser_in = <<>> /\ rx_buffer = <<>> /\ dev_line.rest = <<>>)
           => gps_cb = gps_sent
    /\ \A c \in Callers : \A i \in 1..Len(collected_lines[c]) :
           ~IsGpsFragment(collected_lines[c][i])

\* C16. The queue never holds more than its capacity; every call of
\* put_latest stores its item; and when no call is in progress, what the
\* queue holds is the item of the latest call.
C16_LatestValue ==
    /\ Len(uart_queue) <= QueueMaxsize
    /\ \A p \in Producers : pl_ret[p] # "false"
    /\ ((\A p \in Producers : pl_pc[p] = "idle") /\ uart_queue # <<>>) =>
           <<uart_queue[1]>> = pl_last


\* Every loop has returned.
LoopsExited ==
    /\ fsm_pc \in {"done", "crashed"}
    /\ nav_pc \in {"stopped", "finished"}
    /\ gps_pc = "done"
    /\ pump_pc = "done"

\* C17. Once system_stop_event is set it stays set, and from then on the
\* arbiter loop, the navigator loop, the GPS loop (bind-retry phase included)
\* and the pump loop all eventually return.
C17_CooperativeShutdown ==
    /\ [][system_stop_event => system_stop_event']_vars
    /\ (system_stop_event ~> LoopsExited)

\* The stop flag was set while GPSService.run was still retrying the bind,
\* and all four loops have returned.
C17_Witness ==
    /\ system_stop_event /\ LoopsExited /\ ~gps_bound
    /\ fsm_pc = "done" /\ nav_pc = "stopped"


\* C18. The serial device is closed only once uart_pump has returned: while
\* the pump is alive the device is open.
C18_CloseAfterPumpExit ==
    (~ser_open) => pump_pc = "done"


\* C19. The arbiter clears the pack signal before it attempts to spawn: there
\* are no more spawn attempts than times the signal became pending; a set()
\* not yet followed by the start of an attempt is still pending, or the
\* attempt is the block's next step; only the block's clear() resets the
\* signal; and a pending signal is eventually consumed by the running loop.
C19_EdgeConsumed ==
    /\ [](pk_tries <= pk_rises)
    /\ [](pk_owed => (pack_event \/ pk_pc = "spawn"))
    /\ [][(pack_event /\ ~pack_event') => pk_pc = "clear"]_vars
    /\ (pack_event ~> ~pack_event)

\* Two requests, the second made after the first was cleared, have each
\* been followed by one spawn attempt.
C19_Witness ==
    pk_tries = 2 /\ pk_rises = 2 /\ ~pack_event /\ pk_pc = "test" /\ ~pk_owed


\* The navigator is about to run its TURN block: a valid fix outside the
\* target's radius, state TURN.
TurnFix ==
    /\ nav_pc = "run" /\ ~system_stop_event
    /\ nav_loop \/ idx < Len(Waypoints)
    /\ gps_state.ok /\ gps_state.fix # <<>>
    /\ ~WithinArriveRadius(gps_state.fix[1], Waypoints[idx + 1])
    /\ nav_state = "TURN"

\* The rotate suggestion for a turn of delta degrees.
Rotate(delta) ==
    LET mag == IF delta < 0 THEN 0 - delta ELSE delta
        deg == IF mag > 359 THEN 359 ELSE mag
    IN  (IF delta > 0 THEN <<"R", "0">> ELSE <<"L", "0">>) \o Fmt(deg, 3)

DeltaNow ==
    LET fix == gps_state.fix[1]
        upd == UpdateHeadingFromMotion(fix, gps_state.ts)
    IN  Wrap180(BearingDeg(fix, Waypoints[idx + 1]) - upd.heading[1])

\* C21. The GO block suggests the forward leg, and the state it leaves after
\* the leg is TURN exactly when |delta|, evaluated again after the leg,
\* exceeds turn_threshold_deg, and GO otherwise.
C21_GoStep ==
    [][/\ (nav_pc = "run" /\ nav_pc' = "go_sleep") =>
              nav_out'.emit = <<<<"F">> \o Fmt(ForwardSec, 4)>>
       /\ (nav_pc = "go_sleep" /\ nav_pc' = "run" /\ gps_state.ok) =>
              nav_state' = IF Abs(DeltaNow) > TurnThresholdDeg THEN "TURN" ELSE "GO"]_vars


\* The navigator is about to run an iteration on a valid fix outside the
\* target's radius.
LegFix ==
    /\ nav_pc = "run" /\ ~system_stop_event
    /\ nav_loop \/ idx < Len(Waypoints)
    /\ gps_state.ok /\ gps_state.fix # <<>>
    /\ ~WithinArriveRadius(gps_state.fix[1], Waypoints[idx + 1])

\* C22. An iteration on a valid fix outside the target's radius that leaves
\* the heading undefined suggests the forward leg, which becomes the content
\* of the suggestion slot, and changes neither the state nor idx; and the
\* last suggestion of an iteration is a rotation only with the heading set.
C22_NoHeadingForward ==
    /\ []((nav_out.emit # <<>> /\ nav_out.emit[1][1] \in {"R", "L"}) => heading_deg # <<>>)
    /\ [][(LegFix /\ vars' # vars /\ now' = now /\ gps_state' = gps_state
             /\ heading_deg' = <<>>) =>
             /\ nav_out'.emit = <<<<"F", "0", "0", "0", "2">>>>
             /\ patrol_cmd_queue' = <<[cmd |-> <<"F", "0", "0", "0", "2">>, ts |-> now]>>
             /\ nav_state' = nav_state
             /\ idx' = idx]_vars

\* A second fix too close to the first has left the heading undefined, and
\* the forward leg was suggested again.
C22_Witness ==
    /\ nav_out.obs /\ ~nav_out.arrived /\ nav_out.jitter
    /\ heading_deg = <<>> /\ nav_state = "TURN"
    /\ nav_out.emit = <<<<"F", "0", "0", "0", "2">>>>
    /\ patrol_cmd_queue # <<>> /\ patrol_cmd_queue[1].cmd = <<"F", "0", "0", "0", "2">>


\* C23. The loop ends on its own only with loop=false and idx past the last
\* waypoint (so never with loop=true); with loop=false and idx past the last
\* waypoint it does end; and once ended it stays ended, suggests nothing and
\* requests no pack.
C23_NonLoopTermination ==
    /\ [](nav_pc = "finished" => (~nav_loop /\ idx = Len(Waypoints)))
    /\ [][nav_pc = "finished" =>
             /\ nav_pc' = "finished" /\ idx' = idx /\ nav_out' = nav_out
             /\ patrol_cmd_queue' = patrol_cmd_queue
             /\ pack_event' = pack_event]_vars
    /\ ((~nav_loop /\ idx >= Len(Waypoints)) ~> (nav_pc = "finished"))

\* After the loop has ended, the receiver reports the robot back inside the
\* base radius, and no pack is requested.
C23_Witness ==
    /\ nav_pc = "finished" /\ ~nav_loop /\ idx = Len(Waypoints)
    /\ has_departed_base /\ nav_prev = "out"
    /\ gps_state.ok /\ gps_state.fix = <<Waypoints[1]>>
    /\ ~pack_event


\* C24. What an iteration of the navigator suggests is the content of the
\* patrol suggestion slot when the iteration ends, and the navigator puts
\* nothing on ctx.uart_queue and writes nothing to the serial device.
C24_SuggestionChannel ==
    /\ (nav_out.emit # <<>>) =>
           (patrol_cmd_queue # <<>> /\ patrol_cmd_queue[1].cmd = nav_out.emit[1])
    /\ uart_queue = <<>>
    /\ wire = 0


\* C25. The result r of _wrap180(d) satisfies -180 < r <= 180 and differs
\* from d by a multiple of 360.
C25_Wrap180Range ==
    w_out # <<>> =>
        /\ -180 < w_out[1] /\ w_out[1] <= 180
        /\ (w_out[1] - w_in) % 360 = 0


\* The lines the device has completed since the write are zero or more data
\* lines and then ERR05, and caller c has read every one of them itself.
AnsweredErr05(c) ==
    /\ wire >= 1
    /\ reply # <<>>
    /\ reply[Len(reply)] = Err05Line
    /\ \A i \in 1..(Len(reply) - 1) : reply[i] = DataLine
    /\ collected_lines[c] = reply

\* C26. When a response is awaited and the device ends its answer with
\* ERR05, the call returns a response with success false and error code 5
\* whose data_lines are the lines received before the terminal line.
C26_ErrResolves ==
    \A c \in Callers :
        (AnsweredErr05(c) /\ snd_pc[c] = "idle") =>
            snd_ret[c] = Response(FALSE, 5, SubSeq(reply, 1, Len(reply) - 1))

\* The device has answered the write with a terminal line ERR whose suffix is
\* no number, and the caller has read it.
ReadErrBad(c) ==
    /\ reply # <<>>
    /\ reply[Len(reply)] = ErrBadLine
    /\ collected_lines[c] # <<>>
    /\ collected_lines[c][Len(collected_lines[c])] = ErrBadLine

\* C27. A caller that has read a terminal line ERR with a suffix that is no
\* number waits no longer: its call returns a response with success false
\* and error code 0.
C27_MalformedErrIsCodeZero ==
    \A c \in Callers :
        ReadErrBad(c) =>
            /\ snd_pc[c] = "idle"
            /\ snd_ret[c].how = "resolved"
            /\ ~snd_ret[c].success
            /\ snd_ret[c].error_code = 0


\* The good position lines among the lines the device has completed.
GoodSent == SelectSeq(reply, LAMBDA l : l = GpsLine)

\* Everything the device has sent has been taken in by the receive thread.
LinkQuiet == ser_open /\ ser_in = <<>> /\ rx_buffer = <<>> /\ dev_line.rest = <<>>

\* C28. A position line with a field that is NA or no number causes no call
\* of the GPS callback: the callback is called only for the good lines and
\* with their values, and once the receive thread has taken in everything,
\* it has been called for every good line, those after a bad line included.
C28_BadGpsLineDropped ==
    /\ Len(gps_cb) <= Len(GoodSent)
    /\ \A i \in 1..Len(gps_cb) : gps_cb[i] = [lat |-> 1, lon |-> 2]
    /\ LinkQuiet => Len(gps_cb) = Len(GoodSent)

\* Two bad lines, one with NA and one with a field that is no number, then a
\* good one: one call.
C28_Witness ==
    /\ reply = <<GpsNaLatLine, GpsBadLonLine, GpsLine>>
    /\ LinkQuiet
    /\ gps_cb = <<[lat |-> 1, lon |-> 2]>>


\* C29. Whenever the fix goes from ok to not ok, the threshold is positive
\* and the fix stored at that moment is older than the threshold.
C29_StalenessExact ==
    [][(gps_state.ok /\ ~gps_state'.ok) =>
           (stale_timeout_s > 0 /\ (now - gps_state.ts) > stale_timeout_s)]_vars


\* C30. A step that changes the shared fix is a step of set_gps, called by
\* the fix callback, or of the monitor's set_gps_invalid, and no step of a
\* reader; ts never decreases from one write to the next; and a copy with
\* ok = TRUE holds a position and a ts that one completed set_gps stored
\* together.
C30_GpsStateWrites ==
    /\ [][(gps_state' # gps_state) =>
             /\ gps_lock \/ gps_lock' \/ mon_pc = "mark"
             /\ gps_snap' = gps_snap]_vars
    /\ [][gps_state'.ts >= gps_state.ts]_vars
    /\ [](gps_snap.ok => [fix |-> gps_snap.fix, ts |-> gps_snap.ts] \in gps_written)

\* A reader holds a copy of the first fix, a second fix was stored at a
\* later time, and the monitor has since marked the fix invalid.
C30_Witness ==
    /\ Cardinality(gps_written) = 2
    /\ gps_snap.ok
    /\ \E w \in gps_written : w.ts > gps_snap.ts
    /\ ~gps_state.ok
    /\ gps_state.ts > gps_snap.ts


\* A service loop has ended in the regular way, by its own test of the stop
\* flag or, for the pump, by the sentinel.
LoopEndedRegularly ==
    \/ pump_pc = "done"
    \/ fsm_pc \in {"final", "done"}
    \/ gps_pc = "done"
    \/ dector_pc = "done"

\* C31. Once a required service is dead (the arbiter, the detector or the
\* GPS thread, or a required link that is no longer open), the stop flag is
\* eventually set and main runs its shutdown to the end; and a service loop
\* ends in the regular way only after the stop flag was set, never because
\* another service has failed.
C31_Supervision ==
    /\ ((uart_required /\ ~ser_open) \/ dector_pc = "dead" \/ fsm_pc = "crashed"
            \/ gps_pc = "dead")
          ~> (system_stop_event /\ main_pc = "done")
    /\ [](LoopEndedRegularly => system_stop_event)
    /\ [][(fsm_pc' = "crashed" /\ fsm_pc # "crashed") \/ (dector_pc' = "dead" /\ dector_pc = "run")
            \/ (gps_pc' = "dead" /\ gps_pc # "dead")
          => UNCHANGED <<pump_pc, system_stop_event>>]_vars

\* The detector died, the supervisor shut the system down, and the arbiter,
\* the pump and the GPS thread ended in the regular way.
C31_Witness ==
    /\ dector_pc = "dead"
    /\ main_pc = "done" /\ system_stop_event
    /\ fsm_pc = "done" /\ pump_pc = "done" /\ gps_pc = "done"


\* C32. An iteration of the pump that has taken a stop command from the
\* queue while the device is open writes it, whatever it wrote last and
\* when: the command becomes the last one written, at the present time.
C32_StopNeverSuppressed ==
    [][(/\ pump_pc = "handle" /\ pump_pc' # "handle"
        /\ ~pump_item.none
        /\ Strip(pump_item.cmd) # <<>>
        /\ CmdKind(pump_item.cmd) = "stop"
        /\ ser_open)
       => /\ pump_last_cmd' = Strip(pump_item.cmd)
          /\ pump_last_ts' = now
          /\ tx_log'[Strip(pump_item.cmd)] = pump_item.ets
          /\ tx_last'.cmd = Strip(pump_item.cmd)]_vars

\* The pump has written a stop that the arbiter sent right after another
\* stop, and in the same instant as it wrote something before: nothing else
\* was written since.
C32_Witness ==
    /\ tx_last.cmd = StopCmd
    /\ tx_last.prev = StopCmd
    /\ tx_last.gap = CmdDedupS
    /\ pump_last_cmd = StopCmd
    /\ pump_last_ts = tx_log[StopCmd]
    /\ ser_open


C34_RotateOnce ==
    [][tx_log[RotateRCmd] # 0 => tx_log'[RotateRCmd] = tx_log[RotateRCmd]]_vars


\* C35. What the pump writes is a command the arbiter passed to the queue,
\* from a call later than the call of everything the pump wrote before: the
\* commands written are a subsequence, in order, of the commands emitted.
C35_PumpOrder ==
    [][(/\ pump_pc = "handle" /\ pump_pc' # "handle"
        /\ ~pump_item.none
        /\ Strip(pump_item.cmd) # <<>>
        /\ ser_open
        /\ ~PumpDrops(Strip(pump_item.cmd), now, pump_last_cmd, pump_last_ts))
       => LET c == tx_last'.cmd
              k == tx_log'[c]
          IN  /\ k \in 1..Len(emit_hist)
              /\ emit_hist[k] = c
              /\ \A d \in Commands : tx_log[d] < k]_vars

\* The arbiter emitted three commands; the pump wrote the first and the
\* third, the second was replaced in the queue before the pump took it.
C35_Witness ==
    /\ Len(emit_hist) = 3
    /\ emit_hist[1] # emit_hist[3]
    /\ tx_log[emit_hist[1]] = 1
    /\ tx_log[emit_hist[3]] = 3
    /\ \A d \in Commands : tx_log[d] # 2



\* C36. A violation event in the detection slot leaves it only by the
\* arbiter's drain, which sets the time of the last violation: no push of a
\* plain detection event replaces it.
C36_ViolationKept ==
    [][(dector_queue = <<ViolationEv>> /\ dector_queue' # <<ViolationEv>>)
         => (dector_queue' = <<>> /\ last_violation_ts' = now)]_vars



\* C38. While ctx.gps_state is not ok or holds no coordinates, no step adds
\* a suggestion to the queue or sets the pack signal, and the navigator's
\* waypoint index, TURN/GO state, heading, last accepted point and base
\* flags stay as they are.
C38_InvalidFixFrame ==
    [][(~gps_state.ok \/ gps_state.fix = <<>>) =>
          /\ patrol_cmd_queue' = patrol_cmd_queue
          /\ pack_event' = pack_event
          /\ UNCHANGED <<idx, nav_state, heading_deg, last_pos, last_at_base,
                         has_departed_base>>]_vars

\* The navigator has accepted a point and is heading for a waypoint; the fix
\* was then marked invalid with its coordinates kept, and the navigator has
\* run an iteration on it.
C38_Witness ==
    /\ ~gps_state.ok
    /\ gps_state.fix # <<>>
    /\ nav_pc = "run"
    /\ last_pos # <<>>
    /\ gps_state.fix[1] # Pt(last_pos[1].lon, last_pos[1].lat)
    /\ has_departed_base
    /\ nav_out = NoNavOut



\* C37. With the monitor running and no violation: a fix older than
\* stale_timeout_s is marked invalid; from the marking on no suggestion is
\* added; once the marking is older than patrol_stale_s every decision of
\* the arbiter is the stop command, and such a decision comes unless a new
\* fix comes first.
C37_GpsLossStops ==
    /\ (gps_pc = "monitor" /\ gps_state.ok /\ now - gps_state.ts > StaleTimeoutS)
          ~> ~gps_state.ok
    /\ [][(~gps_state.ok /\ patrol_cmd_queue' # <<>>)
             => patrol_cmd_queue' = patrol_cmd_queue]_vars
    /\ [][(/\ fsm_pc = "body" /\ fsm_pc' # "body"
           /\ ~gps_state.ok
           /\ now - gps_state.ts > PatrolStaleS
           /\ now - last_violation_ts' > HoldAfterLostS)
          => (fsm_out'.cmd = StopCmd /\ fsm_out'.reason = "idle_stop")]_vars
    /\ (~gps_state.ok /\ now - gps_state.ts > PatrolStaleS)
          ~> ((fsm_out.cmd = StopCmd /\ fsm_out.reason = "idle_stop") \/ gps_state.ok)

\* The arbiter holds a suggestion it took from the navigator, the fix was
\* marked invalid longer ago than patrol_stale_s, and the arbiter has decided
\* to stop.
C37_Witness ==
    /\ ~gps_state.ok
    /\ gps_state.fix # <<>>
    /\ gps_pc = "monitor"
    /\ now - gps_state.ts > PatrolStaleS
    /\ patrol_cached_cmd # <<>>
    /\ patrol_cached_ts > Epoch
    /\ patrol_cmd_queue = <<>>
    /\ fsm_out.cmd = StopCmd
    /\ fsm_out.reason = "idle_stop"



\* C39. When send_command returns a response, every line of it (data lines
\* and terminal line) is a line the device completed after the write of that
\* request.
C39_OwnReplyOnly ==
    [][\A c \in Callers :
          (snd_pc[c] = "wait" /\ snd_ret'[c].how = "resolved")
             => \A i \in 1..Len(collected_lines'[c]) :
                   \E j \in 1..Len(reply) : reply[j] = collected_lines'[c][i]]_vars



\* C40. ctx.pack_in_progress is true exactly while an archival job runs;
\* every job ends with the flag cleared; and an iteration of the arbiter that
\* consumes a trigger with the flag clear starts a new job.
C40_PackFlag ==
    /\ [](pack_in_progress <=> pack_jobs > 0)
    /\ pack_in_progress ~> ~pack_in_progress
    /\ [][(fsm_pc = "body" /\ fsm_pc' # "body" /\ pack_event /\ ~pack_in_progress)
            => (pack_in_progress' /\ pack_jobs' = pack_jobs + 1 /\ ~pack_event')]_vars

\* The arbiter's last iteration consumed a trigger and started a job, and
\* the job has ended since: the flag is clear again and a new trigger is
\* pending.
C40_Witness ==
    /\ fsm_out.trigger /\ ~fsm_out.busy /\ fsm_out.packed
    /\ ~pack_in_progress
    /\ pack_jobs = 0
    /\ pack_event

====
